---------------------------- MODULE Spec2Model ----------------------------
(***************************************************************************)
(* Model of the cross-section digitizer plugin:                            *)
(*   - CoordinateTransform (src/map_tools.py), the pixel -> real           *)
(*     calibration, with Python's float arithmetic (IEEE-754 binary64,     *)
(*     round to nearest, ties to even) computed bit by bit;                *)
(*   - the reference-marker bookkeeping of PointMarkerManager              *)
(*     (src/map_tools.py) and of ImageViewerWidget                         *)
(*     (src/image_viewer_widget.py).                                       *)
(***************************************************************************)
EXTENDS Integers, Sequences, FiniteSets, TLC

VARIABLES
    reference_points,   \* CoordinateTransform.reference_points : dict
    reference_values,   \* CoordinateTransform.reference_values : dict
    ct_call,            \* the last call made on the transform and what it returned
    supplied_pixels,    \* history: roles whose pixel was passed in since the last clear
    supplied_values,    \* history: roles whose real value was passed in since the last clear
    self_class,         \* which marker registry the behaviour is about:
                        \*   "PointMarkerManager" or "ImageViewerWidget"
    reference_markers,  \* self.reference_markers : dict, role -> marker
    reference_order,    \* the keys of self.reference_markers in insertion order
    series_markers,     \* self.series_markers : dict, series name -> list of markers
    series_order,       \* the keys of self.series_markers in insertion order
    georef_markers,     \* self.georef_markers : list of markers
    scene_items,        \* the markers in the scene (canvas.scene(), self.scene)
    marker_objs,        \* the marker objects still referenced: handle -> attributes
    next_marker,        \* the handle of the next marker object created
    image_item,         \* ImageViewerWidget.image_item is set (an image is loaded)
    reg_call,           \* the last call made on the registry and its outcome
    reg_events,         \* what the last call told the scene: erase and draw events
    active_passed,      \* history: the active_series last passed to
                        \*   update_series_colors, as <<name>>; <<>> before any call
    pan_mode,           \* ImageGraphicsView.pan_mode
    digitize_mode,      \* ImageGraphicsView.digitize_mode
    pan_start_pos,      \* ImageGraphicsView._pan_start_pos: None or a QPoint
    cursor,             \* the cursor last given to setCursor
    h_line,             \* h_line and v_line exist (they are created together)
    lines_shown,        \* the two line items are shown (show() / hide())
    crosshair_visible,  \* ImageGraphicsView.crosshair_visible
    crosshair_pos,      \* where the lines were last put by setLine: <<>> or <<scene pos>>
    action_pan_checked,       \* the Pan toolbar action is checked
    action_digitize_checked,  \* the Digitize toolbar action is checked
    callback,           \* ImageViewerWidget.coordinate_transform_callback
    coord_label,        \* the text of coord_label
    plot_coord_label,   \* the text of plot_coord_label
    view_call,          \* the last call or event handled by the view or the widget
    view_out,           \* what that handler emitted and passed on
    points,             \* DigitizeMapTool.points : list of map points
    markers,            \* DigitizeMapTool.markers : list of markers
    point_color,        \* DigitizeMapTool.point_color
    canvas_items,       \* the tool's markers in the scene of the canvas
    tool_objs,          \* the tool's marker objects still referenced: handle -> attributes
    next_tool_marker,   \* the handle of the next marker object the tool creates
    tool_call,          \* the last call or event handled by the tool
    tool_events,        \* what that call told the scene: erase and draw events
    callback_calls,     \* the points that call passed to self.callback, in order
    first_reference_points,  \* reference_points of the first CoordinateTransform class
    first_reference_values,  \* reference_values of the first CoordinateTransform class
    first_call          \* the last call made on that object and what it returned

ct_vars == <<reference_points, reference_values, ct_call, supplied_pixels, supplied_values>>

mode_vars == <<pan_mode, digitize_mode, cursor, h_line, lines_shown, crosshair_visible,
               crosshair_pos>>

toolbar_vars == <<action_pan_checked, action_digitize_checked>>

label_vars == <<callback, coord_label, plot_coord_label>>

view_vars == <<mode_vars, pan_start_pos, toolbar_vars, label_vars, view_call, view_out>>

tool_vars == <<points, markers, point_color, canvas_items, tool_objs, next_tool_marker,
               tool_call, tool_events, callback_calls>>

first_vars == <<first_reference_points, first_reference_values, first_call>>

reg_vars == <<self_class, reference_markers, reference_order, series_markers, series_order, georef_markers, scene_items,
              marker_objs, next_marker, image_item, reg_call, reg_events, active_passed>>

(***************************************************************************)
(* Natural numbers of any size, as sequences of bits, least significant    *)
(* bit first, without high zero bits (zero is the empty sequence).         *)
(***************************************************************************)
Bit(a, i) == IF i <= Len(a) THEN a[i] ELSE 0

NTrim(a) ==
    IF \A i \in 1..Len(a) : a[i] = 0 THEN <<>>
    ELSE SubSeq(a, 1, CHOOSE i \in 1..Len(a) :
                          a[i] = 1 /\ \A j \in (i + 1)..Len(a) : a[j] = 0)

RECURSIVE NBits(_)
NBits(n) == IF n = 0 THEN <<>> ELSE <<n % 2>> \o NBits(n \div 2)

\* bits lo..hi of a + b + carry-in c, and the carry out (the range is halved,
\* so the depth of the recursion is logarithmic in the length)
RECURSIVE NAddRange(_, _, _, _, _)
NAddRange(a, b, lo, hi, c) ==
    IF lo = hi
    THEN LET s == Bit(a, lo) + Bit(b, lo) + c
         IN  [bits |-> <<s % 2>>, c |-> s \div 2]
    ELSE LET mid == (lo + hi) \div 2
             l   == NAddRange(a, b, lo, mid, c)
             h   == NAddRange(a, b, mid + 1, hi, l.c)
         IN  [bits |-> l.bits \o h.bits, c |-> h.c]

NAdd(a, b) ==
    LET n == IF Len(a) < Len(b) THEN Len(b) ELSE Len(a)
    IN  IF n = 0 THEN <<>>
        ELSE LET r == NAddRange(a, b, 1, n, 0)
             IN  IF r.c = 1 THEN r.bits \o <<1>> ELSE r.bits

\* bits lo..hi of a - b - borrow-in c, and the borrow out
RECURSIVE NSubRange(_, _, _, _, _)
NSubRange(a, b, lo, hi, c) ==
    IF lo = hi
    THEN LET d == Bit(a, lo) - Bit(b, lo) - c
         IN  [bits |-> <<d % 2>>, c |-> IF d < 0 THEN 1 ELSE 0]
    ELSE LET mid == (lo + hi) \div 2
             l   == NSubRange(a, b, lo, mid, c)
             h   == NSubRange(a, b, mid + 1, hi, l.c)
         IN  [bits |-> l.bits \o h.bits, c |-> h.c]

\* a - b, for a >= b
NSub(a, b) == IF a = <<>> THEN <<>> ELSE NTrim(NSubRange(a, b, 1, Len(a), 0).bits)

\* -1, 0, 1 as bits lo..hi of a are below, equal to, above those of b
RECURSIVE NCmpRange(_, _, _, _)
NCmpRange(a, b, lo, hi) ==
    IF lo = hi
    THEN (IF a[lo] = b[lo] THEN 0 ELSE IF a[lo] < b[lo] THEN -1 ELSE 1)
    ELSE LET mid == (lo + hi) \div 2
             h   == NCmpRange(a, b, mid + 1, hi)
         IN  IF h /= 0 THEN h ELSE NCmpRange(a, b, lo, mid)

NLess(a, b) ==
    IF Len(a) /= Len(b) THEN Len(a) < Len(b)
    ELSE IF a = <<>> THEN FALSE
    ELSE NCmpRange(a, b, 1, Len(a)) = -1

NShl(a, k) == IF a = <<>> THEN <<>> ELSE [i \in 1..k |-> 0] \o a

NShr(a, k) == IF k >= Len(a) THEN <<>> ELSE SubSeq(a, k + 1, Len(a))

\* a times bits lo..hi of b
RECURSIVE NMulRange(_, _, _, _)
NMulRange(a, b, lo, hi) ==
    IF lo = hi THEN (IF b[lo] = 1 THEN a ELSE <<>>)
    ELSE LET mid == (lo + hi) \div 2
         IN  NAdd(NMulRange(a, b, lo, mid),
                  NShl(NMulRange(a, b, mid + 1, hi), mid + 1 - lo))

NMul(a, b) ==
    IF a = <<>> \/ b = <<>> THEN <<>>
    ELSE IF Len(a) < Len(b) THEN NMulRange(b, a, 1, Len(a))
    ELSE NMulRange(a, b, 1, Len(b))

\* Long division by den (den /= 0) over bits hi..lo of num, highest first, entered
\* with remainder r: the quotient bits of the range and the remainder left.
RECURSIVE NDivRange(_, _, _, _, _)
NDivRange(num, den, lo, hi, r) ==
    IF lo = hi
    THEN LET r2 == NTrim(<<num[lo]>> \o r)
         IN  IF NLess(r2, den) THEN [q |-> <<0>>, r |-> r2]
             ELSE [q |-> <<1>>, r |-> NSub(r2, den)]
    ELSE LET mid == (lo + hi) \div 2
             h   == NDivRange(num, den, mid + 1, hi, r)
             l   == NDivRange(num, den, lo, mid, h.r)
         IN  IF h.q = <<>> THEN h    \* never: it makes the high half be computed first
             ELSE [q |-> l.q \o h.q, r |-> l.r]

NDivMod(num, den) ==
    IF num = <<>> THEN [q |-> <<>>, r |-> <<>>]
    ELSE LET d == NDivRange(num, den, 1, Len(num), <<>>)
         IN  [q |-> NTrim(d.q), r |-> d.r]

NLowZeros(a) ==
    IF a = <<>> THEN 0
    ELSE (CHOOSE i \in 1..Len(a) : a[i] = 1 /\ \A j \in 1..(i - 1) : a[j] = 0) - 1

(***************************************************************************)
(* Python floats: IEEE-754 binary64 values (-1)^s * m * 2^e, kept          *)
(* canonical (m odd, or zero with s = 0 and e = 0) so that equality of     *)
(* records is Python's ==.  The exponent range is not modelled: the        *)
(* inputs considered stay far from overflow and underflow.                 *)
(***************************************************************************)
MantissaBits == 53

FZero == [t |-> "float", s |-> 0, m |-> <<>>, e |-> 0]

FNorm(s, n, e) ==
    IF n = <<>> THEN FZero
    ELSE LET k == NLowZeros(n)
         IN  [t |-> "float", s |-> s, m |-> NShr(n, k), e |-> e + k]

\* the value n * 2^e (plus a little more when sticky), rounded to nearest, ties to even
FRound(s, n, e, sticky) ==
    IF Len(n) <= MantissaBits THEN FNorm(s, n, e)
    ELSE LET d     == Len(n) - MantissaBits
             kept  == NShr(n, d)
             guard == n[d]
             rest  == sticky \/ \E i \in 1..(d - 1) : n[i] = 1
             up    == guard = 1 /\ (rest \/ kept[1] = 1)
         IN  FNorm(s, IF up THEN NAdd(kept, <<1>>) ELSE kept, e + d)

FromInt(n) == IF n < 0 THEN FNorm(1, NBits(-n), 0) ELSE FNorm(0, NBits(n), 0)

FNeg(x) == IF x.m = <<>> THEN x ELSE [x EXCEPT !.s = 1 - x.s]

FAdd(x, y) ==
    IF x.m = <<>> THEN y
    ELSE IF y.m = <<>> THEN x
    ELSE LET lo == IF x.e < y.e THEN x.e ELSE y.e
             a  == NShl(x.m, x.e - lo)
             b  == NShl(y.m, y.e - lo)
         IN  IF x.s = y.s THEN FRound(x.s, NAdd(a, b), lo, FALSE)
             ELSE IF a = b THEN FZero
             ELSE IF NLess(a, b) THEN FRound(y.s, NSub(b, a), lo, FALSE)
             ELSE FRound(x.s, NSub(a, b), lo, FALSE)

FSub(x, y) == FAdd(x, FNeg(y))

FMul(x, y) ==
    IF x.m = <<>> \/ y.m = <<>> THEN FZero
    ELSE FRound((x.s + y.s) % 2, NMul(x.m, y.m), x.e + y.e, FALSE)

\* x / y for y /= 0: enough quotient bits for the rounding, the remainder is the sticky bit
FDiv(x, y) ==
    IF x.m = <<>> THEN FZero
    ELSE LET want == MantissaBits + 2 + Len(y.m) - Len(x.m)
             n    == IF want > 0 THEN want ELSE 0
             d    == NDivMod(NShl(x.m, n), y.m)
         IN  FRound((x.s + y.s) % 2, d.q, x.e - y.e - n, d.r /= <<>>)

(***************************************************************************)
(* Formatting a float with a fixed number of decimals, f"{x:.3f}": the      *)
(* exact value is rounded to the nearest multiple of 10^-digits, ties to    *)
(* even, and written with its sign, integer part and `digits` decimals.     *)
(***************************************************************************)
RECURSIVE Pow10(_)
Pow10(d) == IF d = 0 THEN 1 ELSE 10 * Pow10(d - 1)

RECURSIVE NToInt(_)
NToInt(a) == IF a = <<>> THEN 0 ELSE a[1] + 2 * NToInt(Tail(a))

\* the last d decimal digits of n, with leading zeros
RECURSIVE Decimals(_, _)
Decimals(n, d) == IF d = 0 THEN "" ELSE Decimals(n \div 10, d - 1) \o ToString(n % 10)

\* round(|x| * 10^digits), ties to even
Scaled(x, digits) ==
    LET n == NMul(x.m, NBits(Pow10(digits)))
    IN  IF x.e >= 0 THEN NShl(n, x.e)
        ELSE LET k     == -x.e
                 kept  == NShr(n, k)
                 guard == Bit(n, k)
                 rest  == \E i \in 1..(k - 1) : Bit(n, i) = 1
                 up    == guard = 1 /\ (rest \/ Bit(kept, 1) = 1)
             IN  IF up THEN NAdd(kept, <<1>>) ELSE kept

FormatFixed(x, digits) ==
    LET n == NToInt(Scaled(x, digits))
    IN  (IF x.s = 1 THEN "-" ELSE "") \o ToString(n \div Pow10(digits))
            \o "." \o Decimals(n, digits)

(***************************************************************************)
(* Python values: None, floats, tuples (x, y), and a raised exception as   *)
(* the outcome of a call.                                                  *)
(***************************************************************************)
PyNone == [t |-> "None"]

PyTuple(a, b) == [t |-> "tuple", v |-> <<a, b>>]

PyRaise(exc) == [t |-> "raise", exc |-> exc]

PyStr(str) == [t |-> "str", v |-> str]

\* bool(v), as used by `if real_coords:`
Truthy(v) ==
    CASE v.t = "None"  -> FALSE
      [] v.t = "float" -> v.m /= <<>>
      [] v.t = "tuple" -> Len(v.v) > 0
      [] v.t = "str"   -> v.v /= ""
      [] v.t = "QPoint" -> v.v /= <<0, 0>>

\* x / y on floats: a zero divisor raises
PyTrueDiv(x, y) == IF y.m = <<>> THEN PyRaise("ZeroDivisionError") ELSE FDiv(x, y)

(***************************************************************************)
(* Python dicts: functions whose domain is the set of keys.                *)
(***************************************************************************)
EmptyDict == <<>>

Put(d, k, v) == [x \in (DOMAIN d) \cup {k} |-> IF x = k THEN v ELSE d[x]]

\* del d[k]
Del(d, k) == IF DOMAIN d \subseteq {k} THEN EmptyDict ELSE [x \in (DOMAIN d) \ {k} |-> d[x]]

(***************************************************************************)
(* The arguments the operations are called with.                           *)
(***************************************************************************)
PointTypes == {"origin", "x_ref", "y_ref"}

\* pixel_coords: (x, y) pixel coordinates
PixelInputs == {PyTuple(FromInt(0), FromInt(0)), PyTuple(FromInt(25), FromInt(50))}

\* the real value of a role: (x, y) for the origin, the axis value for x_ref and y_ref
ValueInputs(point_type) ==
    IF point_type = "origin"
    THEN {PyTuple(FromInt(0), FromInt(0)), PyTuple(FromInt(1), FromInt(2))}
    ELSE {FromInt(0), FromInt(7)}

\* real_coords: a value, or None (the default)
RealCoordsInputs(point_type) == {PyNone} \cup ValueInputs(point_type)

\* the positions pixel_to_real is asked about: the reference pixels, mixed ones,
\* and one beyond the reference segment on both axes
QueryInputs == {<<FromInt(0), FromInt(0)>>, <<FromInt(25), FromInt(50)>>,
                <<FromInt(25), FromInt(0)>>, <<FromInt(0), FromInt(50)>>,
                <<FromInt(50), FromInt(100)>>}

(***************************************************************************)
(* CoordinateTransform (the class definition in force: the second one).    *)
(***************************************************************************)
required_points == <<"origin", "x_ref", "y_ref">>
required_values == <<"origin", "x_ref", "y_ref">>

is_calibrated_points_only ==
    \A i \in 1..Len(required_points) : required_points[i] \in DOMAIN reference_points

is_calibrated ==
    /\ \A i \in 1..Len(required_points) : required_points[i] \in DOMAIN reference_points
    /\ \A i \in 1..Len(required_values) : required_values[i] \in DOMAIN reference_values

axis_scale_unguarded(ref_val, origin_val, ref_p, origin_p) ==
    PyTrueDiv(FSub(ref_val, origin_val), FSub(ref_p, origin_p))

\* x_scale, y_scale: "Calculate scale factors"
axis_scale(ref_val, origin_val, ref_p, origin_p) ==
    IF ref_p /= origin_p
    THEN PyTrueDiv(FSub(ref_val, origin_val), FSub(ref_p, origin_p))
    ELSE FromInt(1)

axis_real_no_pixel_offset(origin_val, pixel, origin_p, scale) ==
    FAdd(origin_val, FMul(pixel, scale))

\* real_x, real_y: "Transform coordinates"
axis_real(origin_val, pixel, origin_p, scale) ==
    FAdd(origin_val, FMul(FSub(pixel, origin_p), scale))

\* pixel_to_real past its calibration guard; a dict lookup of a missing key raises
pixel_to_real_calibrated(pixel_x, pixel_y) ==
    IF \E k \in PointTypes : k \notin DOMAIN reference_points \/ k \notin DOMAIN reference_values
    THEN PyRaise("KeyError")
    ELSE LET origin_px == reference_points["origin"].v[1]
             origin_py == reference_points["origin"].v[2]
             x_ref_px  == reference_points["x_ref"].v[1]
             y_ref_py  == reference_points["y_ref"].v[2]
             origin_x  == reference_values["origin"].v[1]
             origin_y  == reference_values["origin"].v[2]
             x_ref_val == reference_values["x_ref"]
             y_ref_val == reference_values["y_ref"]
             x_scale   == axis_scale(x_ref_val, origin_x, x_ref_px, origin_px)
             y_scale   == axis_scale(y_ref_val, origin_y, y_ref_py, origin_py)
         IN  IF x_scale.t = "raise" THEN x_scale
             ELSE IF y_scale.t = "raise" THEN y_scale
             ELSE PyTuple(axis_real(origin_x, pixel_x, origin_px, x_scale),
                          axis_real(origin_y, pixel_y, origin_py, y_scale))

pixel_to_real_checks_points_only(pixel_x, pixel_y) ==
    IF ~is_calibrated_points_only THEN PyNone
    ELSE pixel_to_real_calibrated(pixel_x, pixel_y)

pixel_to_real(pixel_x, pixel_y) ==
    IF ~is_calibrated THEN PyNone
    ELSE pixel_to_real_calibrated(pixel_x, pixel_y)

set_reference_point(point_type, pixel_coords, real_coords) ==
    /\ reference_points' = Put(reference_points, point_type, pixel_coords)
    /\ reference_values' = IF Truthy(real_coords)
                           THEN Put(reference_values, point_type, real_coords)
                           ELSE reference_values

set_reference_value_writes_point(point_type, value) ==
    /\ reference_values' = Put(reference_values, point_type, value)
    /\ reference_points' = Put(reference_points, point_type, value)

set_reference_value(point_type, value) ==
    /\ reference_values' = Put(reference_values, point_type, value)
    /\ UNCHANGED reference_points

clear_points_only ==
    /\ reference_points' = EmptyDict
    /\ UNCHANGED reference_values

clear ==
    /\ reference_points' = EmptyDict
    /\ reference_values' = EmptyDict

\* a call as observed from outside: its name, arguments and outcome, and (for
\* clear) the keys the two dicts held when it was made
Call(op, args, ret, pre) == [op |-> op, args |-> args, ret |-> ret, pre |-> pre]

CTInit ==
    /\ reference_points = EmptyDict
    /\ reference_values = EmptyDict
    /\ ct_call = Call("__init__", <<>>, PyNone, <<>>)
    /\ supplied_pixels = {}
    /\ supplied_values = {}

SetReferencePoint ==
    \E point_type \in PointTypes, pixel_coords \in PixelInputs :
      \E real_coords \in RealCoordsInputs(point_type) :
        /\ set_reference_point(point_type, pixel_coords, real_coords)
        /\ ct_call' = Call("set_reference_point",
                           <<point_type, pixel_coords, real_coords>>, PyNone, <<>>)
        /\ supplied_pixels' = supplied_pixels \cup {point_type}
        /\ supplied_values' = IF real_coords.t /= "None"
                              THEN supplied_values \cup {point_type}
                              ELSE supplied_values
        /\ UNCHANGED <<reg_vars, view_vars, tool_vars, first_vars>>

SetReferenceValue ==
    \E point_type \in PointTypes :
      \E value \in ValueInputs(point_type) :
        /\ set_reference_value(point_type, value)
        /\ ct_call' = Call("set_reference_value", <<point_type, value>>, PyNone, <<>>)
        /\ supplied_values' = supplied_values \cup {point_type}
        /\ UNCHANGED <<supplied_pixels, reg_vars, view_vars, tool_vars, first_vars>>

Clear ==
    /\ clear
    /\ ct_call' = Call("clear", <<>>, PyNone,
                       <<DOMAIN reference_points, DOMAIN reference_values>>)
    /\ supplied_pixels' = {}
    /\ supplied_values' = {}
    /\ UNCHANGED <<reg_vars, view_vars, tool_vars, first_vars>>

IsCalibrated ==
    /\ ct_call' = Call("is_calibrated", <<>>, is_calibrated, <<>>)
    /\ UNCHANGED <<reference_points, reference_values, supplied_pixels, supplied_values>>
    /\ UNCHANGED <<reg_vars, view_vars, tool_vars, first_vars>>

PixelToReal_storing_origin ==
    \E q \in QueryInputs :
        /\ ct_call' = Call("pixel_to_real", q, pixel_to_real(q[1], q[2]), <<>>)
        /\ reference_values' = IF "origin" \in DOMAIN reference_values THEN reference_values
                               ELSE Put(reference_values, "origin",
                                        PyTuple(FromInt(0), FromInt(0)))
        /\ UNCHANGED <<reference_points, supplied_pixels, supplied_values>>
        /\ UNCHANGED <<reg_vars, view_vars, tool_vars, first_vars>>

PixelToReal ==
    \E q \in QueryInputs :
        /\ ct_call' = Call("pixel_to_real", q, pixel_to_real(q[1], q[2]), <<>>)
        /\ UNCHANGED <<reference_points, reference_values, supplied_pixels, supplied_values>>
        /\ UNCHANGED <<reg_vars, view_vars, tool_vars, first_vars>>

(***************************************************************************)
(* The marker registries: PointMarkerManager (markers are QgsVertexMarker   *)
(* items of the map canvas) and ImageViewerWidget (markers are              *)
(* CrossGraphicsItem items of its own scene).  The two classes keep the     *)
(* same three collections; a behaviour follows one object of either class.  *)
(***************************************************************************)
MaxMarkers == 3

RegistryClasses == {"PointMarkerManager", "ImageViewerWidget"}

\* ref_type / marker_type: the three roles
RefTypes == PointTypes

\* point (a QgsPointXY), or x, y (image pixel coordinates)
PointInputs == {<<10, 20>>, <<30, 40>>}

QColor(r, g, b) == <<r, g, b>>

Range(f) == {f[k] : k \in DOMAIN f}

Restrict(f, keys) == IF keys = {} THEN EmptyDict ELSE [k \in keys |-> f[k]]

Erase(h) == [ev |-> "erase", h |-> h]
Draw(h) == [ev |-> "draw", h |-> h]

\* the markers a registry holds in its three collections
Tracked(ref, series, georef) ==
    Range(ref) \cup UNION {Range(series[n]) : n \in DOMAIN series} \cup Range(georef)

\* a marker object: what the code sets on it, and (for the properties only) the
\* collection it was created for
Marker(center, color, size, pen_width, made_for) ==
    [center |-> center, color |-> color, size |-> size, pen_width |-> pen_width,
     made_for |-> made_for]

\* the marker objects left once those no longer referenced are collected
Collect(objs, scene, ref, series, georef) ==
    Restrict(objs, DOMAIN objs \cap (scene \cup Tracked(ref, series, georef)))

\* QGraphicsItem.mapToScene of the image item, which stays at the scene's origin,
\* untransformed (only the view is scaled): image pixels are scene coordinates
mapToScene(p) == p

reference_color_map ==
    [origin |-> QColor(0, 255, 0), x_ref |-> QColor(0, 0, 255), y_ref |-> QColor(255, 165, 0)]

\* the insertion order of a dict's keys after d[k] = v: a new key goes last, a
\* key already there keeps its place
PutKey(order, k) == IF k \in Range(order) THEN order ELSE Append(order, k)

\* dict.get(key, default)
Get(d, k, default) == IF k \in DOMAIN d THEN d[k] ELSE default

add_reference_point_keeps_old(point, ref_type) ==
    LET marker == next_marker
        objs   == Put(marker_objs, marker,
                      Marker(point, Get(reference_color_map, ref_type, QColor(0, 255, 0)),
                             10, 3, <<"reference", ref_type>>))
    IN  /\ self_class = "PointMarkerManager"
        /\ next_marker' = next_marker + 1
        /\ scene_items' = scene_items \cup {marker}
        /\ reg_events' = <<Draw(marker)>>
        /\ reference_markers' = Put(reference_markers, ref_type, marker)
        /\ reference_order' = PutKey(reference_order, ref_type)
        /\ marker_objs' = Collect(objs, scene_items', reference_markers',
                                  series_markers, georef_markers)
        /\ UNCHANGED <<series_markers, series_order, georef_markers>>

\* PointMarkerManager.add_reference_point; QgsVertexMarker(canvas) puts the new
\* item in the canvas scene
add_reference_point(point, ref_type) ==
    LET old    == IF ref_type \in DOMAIN reference_markers
                  THEN <<reference_markers[ref_type]>> ELSE <<>>
        marker == next_marker
        objs   == Put(marker_objs, marker,
                      Marker(point, Get(reference_color_map, ref_type, QColor(0, 255, 0)),
                             10, 3, <<"reference", ref_type>>))
    IN  /\ self_class = "PointMarkerManager"
        /\ next_marker' = next_marker + 1
        /\ scene_items' = (scene_items \ Range(old)) \cup {marker}
        /\ reg_events' = [i \in DOMAIN old |-> Erase(old[i])] \o <<Draw(marker)>>
        /\ reference_markers' = Put(reference_markers, ref_type, marker)
        /\ reference_order' = PutKey(reference_order, ref_type)
        /\ marker_objs' = Collect(objs, scene_items', reference_markers',
                                  series_markers, georef_markers)
        /\ UNCHANGED <<series_markers, series_order, georef_markers>>

\* ImageViewerWidget.add_reference_marker; without an image, image_item is None
\* and self.image_item.mapToScene raises, after the old marker was removed
add_reference_marker(x, y, marker_type) ==
    LET old    == IF marker_type \in DOMAIN reference_markers
                  THEN <<reference_markers[marker_type]>> ELSE <<>>
        marker == next_marker
        objs   == Put(marker_objs, marker,
                      Marker(mapToScene(<<x, y>>),
                             Get(reference_color_map, marker_type, QColor(255, 0, 0)),
                             10, 3, <<"reference", marker_type>>))
    IN  /\ self_class = "ImageViewerWidget"
        /\ IF image_item
           THEN /\ next_marker' = next_marker + 1
                /\ scene_items' = (scene_items \ Range(old)) \cup {marker}
                /\ reg_events' = [i \in DOMAIN old |-> Erase(old[i])] \o <<Draw(marker)>>
                /\ reference_markers' = Put(reference_markers, marker_type, marker)
                /\ reference_order' = PutKey(reference_order, marker_type)
                /\ marker_objs' = Collect(objs, scene_items', reference_markers',
                                          series_markers, georef_markers)
           ELSE /\ scene_items' = scene_items \ Range(old)
                /\ reg_events' = [i \in DOMAIN old |-> Erase(old[i])]
                /\ marker_objs' = Collect(marker_objs, scene_items', reference_markers,
                                          series_markers, georef_markers)
                /\ UNCHANGED <<next_marker, reference_markers, reference_order>>
        /\ UNCHANGED <<series_markers, series_order, georef_markers>>

\* PointMarkerManager.clear_reference_points, ImageViewerWidget.clear_reference_markers
clear_reference(class) ==
    /\ self_class = class
    /\ scene_items' = scene_items \ Range(reference_markers)
    /\ reg_events' = [i \in DOMAIN reference_order |->
                         Erase(reference_markers[reference_order[i]])]
    /\ reference_markers' = EmptyDict
    /\ reference_order' = <<>>
    /\ marker_objs' = Collect(marker_objs, scene_items', reference_markers',
                              series_markers, georef_markers)
    /\ UNCHANGED <<series_markers, series_order, georef_markers, next_marker>>

clear_reference_points == clear_reference("PointMarkerManager")

clear_reference_markers == clear_reference("ImageViewerWidget")

\* ImageViewerWidget.load_image: a null pixmap returns False and leaves the item
load_image(pixmap_is_null) ==
    /\ self_class = "ImageViewerWidget"
    /\ image_item' = (image_item \/ ~pixmap_is_null)

(***************************************************************************)
(* Series and georeferencing markers of the two registries.                *)
(***************************************************************************)
\* series_name, active_series: a name and the empty string
SeriesNames == {"", "A"}

\* point_type of add_georef_point, which the method does not use
GeorefPointTypes == {"start"}

\* the point of a series or georeferencing marker
MarkerPointInputs == {<<10, 20>>}

\* color = QColor(0, 0, 0) if is_active else QColor(128, 128, 128)
series_color(is_active) == IF is_active THEN QColor(0, 0, 0) ELSE QColor(128, 128, 128)

\* the erase events of `for marker in markers: removeItem(marker)`
EraseEach(items) == [i \in DOMAIN items |-> Erase(items[i])]

\* the erase events of the nested loop over series_markers.values()
RECURSIVE EraseSeries(_, _)
EraseSeries(order, series) ==
    IF order = <<>> THEN <<>>
    ELSE EraseEach(series[Head(order)]) \o EraseSeries(Tail(order), series)

\* the keys left in insertion order after del d[k]
DelKey(order, k) == SelectSeq(order, LAMBDA x : x /= k)

\* the series a marker is in, if any
SeriesOf(series, h) == {n \in DOMAIN series : h \in Range(series[n])}

\* the body shared by add_data_point and add_data_marker once the point is known;
\* has_surface is false when the viewer has no image item to map the point with
add_data(class, point, series_name, is_active, has_surface) ==
    LET series == IF series_name \notin DOMAIN series_markers
                  THEN Put(series_markers, series_name, <<>>) ELSE series_markers
        marker == next_marker
        objs   == Put(marker_objs, marker,
                      Marker(point, series_color(is_active), 6, 2, <<"series", series_name>>))
    IN  /\ self_class = class
        /\ series_order' = PutKey(series_order, series_name)
        /\ IF has_surface
           THEN /\ next_marker' = next_marker + 1
                /\ scene_items' = scene_items \cup {marker}
                /\ reg_events' = <<Draw(marker)>>
                /\ series_markers' = Put(series, series_name,
                                         Append(series[series_name], marker))
                /\ marker_objs' = Collect(objs, scene_items', reference_markers,
                                          series_markers', georef_markers)
           ELSE /\ series_markers' = series
                /\ reg_events' = <<>>
                /\ UNCHANGED <<next_marker, scene_items, marker_objs>>
        /\ UNCHANGED <<reference_markers, reference_order, georef_markers>>

\* PointMarkerManager.add_data_point
add_data_point(series_name, point, is_active) ==
    add_data("PointMarkerManager", point, series_name, is_active, TRUE)

\* ImageViewerWidget.add_data_marker; without an image self.image_item.mapToScene
\* raises, after the series was created
add_data_marker(x, y, series_name, is_active) ==
    add_data("ImageViewerWidget", mapToScene(<<x, y>>), series_name, is_active, image_item)

\* the body shared by add_georef_point and add_georef_marker
add_georef(class, point, size, has_surface) ==
    LET marker == next_marker
        objs   == Put(marker_objs, marker,
                      Marker(point, QColor(255, 0, 0), size, 3, <<"georef">>))
    IN  /\ self_class = class
        /\ IF has_surface
           THEN /\ next_marker' = next_marker + 1
                /\ scene_items' = scene_items \cup {marker}
                /\ reg_events' = <<Draw(marker)>>
                /\ georef_markers' = Append(georef_markers, marker)
                /\ marker_objs' = Collect(objs, scene_items', reference_markers,
                                          series_markers, georef_markers')
           ELSE /\ reg_events' = <<>>
                /\ UNCHANGED <<next_marker, scene_items, georef_markers, marker_objs>>
        /\ UNCHANGED <<reference_markers, reference_order, series_markers, series_order>>

\* PointMarkerManager.add_georef_point
add_georef_point(point, point_type) == add_georef("PointMarkerManager", point, 8, TRUE)

\* ImageViewerWidget.add_georef_marker
add_georef_marker(x, y) ==
    add_georef("ImageViewerWidget", mapToScene(<<x, y>>), 8, image_item)

recolored_active_only(objs, series, active_series) ==
    [h \in DOMAIN objs |->
        IF active_series \in SeriesOf(series, h)
        THEN [objs[h] EXCEPT !.color = series_color(TRUE)]
        ELSE objs[h]]

\* the marker objects after update_series_colors(active_series)
recolored(objs, series, active_series) ==
    [h \in DOMAIN objs |->
        IF SeriesOf(series, h) = {} THEN objs[h]
        ELSE [objs[h] EXCEPT !.color =
                 series_color((CHOOSE n \in SeriesOf(series, h) : TRUE) = active_series)]]

\* PointMarkerManager.update_series_colors, ImageViewerWidget.update_series_colors
update_series_colors(class, active_series) ==
    /\ self_class = class
    /\ marker_objs' = recolored(marker_objs, series_markers, active_series)
    /\ reg_events' = <<>>
    /\ UNCHANGED <<reference_markers, reference_order, series_markers, series_order,
                   georef_markers, scene_items, next_marker>>

clear_one_series_forgets_only(series_name) ==
    IF series_name \in DOMAIN series_markers
    THEN /\ reg_events' = <<>>
         /\ series_markers' = Del(series_markers, series_name)
         /\ series_order' = DelKey(series_order, series_name)
         /\ marker_objs' = Collect(marker_objs, scene_items, reference_markers,
                                   series_markers', georef_markers)
         /\ UNCHANGED scene_items
    ELSE /\ reg_events' = <<>>
         /\ UNCHANGED <<scene_items, series_markers, series_order, marker_objs>>

\* the branch `if series_name in self.series_markers:` of clear_series and
\* clear_series_markers
clear_one_series(series_name) ==
    IF series_name \in DOMAIN series_markers
    THEN /\ scene_items' = scene_items \ Range(series_markers[series_name])
         /\ reg_events' = EraseEach(series_markers[series_name])
         /\ series_markers' = Del(series_markers, series_name)
         /\ series_order' = DelKey(series_order, series_name)
         /\ marker_objs' = Collect(marker_objs, scene_items', reference_markers,
                                   series_markers', georef_markers)
    ELSE /\ reg_events' = <<>>
         /\ UNCHANGED <<scene_items, series_markers, series_order, marker_objs>>

\* the loop over self.series_markers.values() and series_markers.clear()
clear_every_series ==
    /\ scene_items' = scene_items \ Tracked(EmptyDict, series_markers, <<>>)
    /\ reg_events' = EraseSeries(series_order, series_markers)
    /\ series_markers' = EmptyDict
    /\ series_order' = <<>>
    /\ marker_objs' = Collect(marker_objs, scene_items', reference_markers,
                              series_markers', georef_markers)

\* PointMarkerManager.clear_series
clear_series(series_name) ==
    /\ self_class = "PointMarkerManager"
    /\ clear_one_series(series_name)
    /\ UNCHANGED <<reference_markers, reference_order, georef_markers, next_marker>>

\* ImageViewerWidget.clear_series_markers(series_name=None)
clear_series_markers(series_name) ==
    /\ self_class = "ImageViewerWidget"
    /\ IF Truthy(series_name) THEN clear_one_series(series_name.v) ELSE clear_every_series
    /\ UNCHANGED <<reference_markers, reference_order, georef_markers, next_marker>>

\* PointMarkerManager.clear_georef_points, ImageViewerWidget.clear_georef_markers
clear_georef(class) ==
    /\ self_class = class
    /\ scene_items' = scene_items \ Range(georef_markers)
    /\ reg_events' = EraseEach(georef_markers)
    /\ georef_markers' = <<>>
    /\ marker_objs' = Collect(marker_objs, scene_items', reference_markers,
                              series_markers, georef_markers')
    /\ UNCHANGED <<reference_markers, reference_order, series_markers, series_order,
                   next_marker>>

clear_georef_points == clear_georef("PointMarkerManager")

clear_georef_markers == clear_georef("ImageViewerWidget")

clear_all_without_georef ==
    /\ self_class = "PointMarkerManager"
    /\ scene_items' = (scene_items \ Tracked(EmptyDict, series_markers, <<>>))
                          \ Range(reference_markers)
    /\ reg_events' = EraseSeries(series_order, series_markers)
                        \o [i \in DOMAIN reference_order |->
                               Erase(reference_markers[reference_order[i]])]
    /\ series_markers' = EmptyDict
    /\ series_order' = <<>>
    /\ reference_markers' = EmptyDict
    /\ reference_order' = <<>>
    /\ marker_objs' = Collect(marker_objs, scene_items', reference_markers',
                              series_markers', georef_markers)
    /\ UNCHANGED <<next_marker, georef_markers>>

\* PointMarkerManager.clear_all: the series loop, then clear_georef_points(), then
\* clear_reference_points()
clear_all ==
    /\ self_class = "PointMarkerManager"
    /\ scene_items' = ((scene_items \ Tracked(EmptyDict, series_markers, <<>>))
                          \ Range(georef_markers)) \ Range(reference_markers)
    /\ reg_events' = EraseSeries(series_order, series_markers)
                        \o EraseEach(georef_markers)
                        \o [i \in DOMAIN reference_order |->
                               Erase(reference_markers[reference_order[i]])]
    /\ series_markers' = EmptyDict
    /\ series_order' = <<>>
    /\ georef_markers' = <<>>
    /\ reference_markers' = EmptyDict
    /\ reference_order' = <<>>
    /\ marker_objs' = Collect(marker_objs, scene_items', reference_markers',
                              series_markers', georef_markers')
    /\ UNCHANGED next_marker

RegInit ==
    /\ self_class \in RegistryClasses
    /\ reference_markers = EmptyDict
    /\ reference_order = <<>>
    /\ series_markers = EmptyDict
    /\ series_order = <<>>
    /\ georef_markers = <<>>
    /\ scene_items = {}
    /\ marker_objs = EmptyDict
    /\ next_marker = 1
    /\ image_item = FALSE
    /\ reg_call = Call("__init__", <<>>, PyNone, <<>>)
    /\ reg_events = <<>>
    /\ active_passed = <<>>

\* the marker a role had when the call was made, if any
HadMarker(ref_type) ==
    IF ref_type \in DOMAIN reference_markers THEN <<reference_markers[ref_type]>> ELSE <<>>

AddReferencePoint ==
    \E point \in PointInputs, ref_type \in RefTypes :
        /\ next_marker <= MaxMarkers
        /\ add_reference_point(point, ref_type)
        /\ reg_call' = Call("add_reference_point", <<point, ref_type>>, PyNone,
                            HadMarker(ref_type))
        /\ UNCHANGED <<self_class, image_item, active_passed, ct_vars, view_vars, tool_vars, first_vars>>

AddReferenceMarker ==
    \E point \in PointInputs, marker_type \in RefTypes :
        /\ next_marker <= MaxMarkers
        /\ add_reference_marker(point[1], point[2], marker_type)
        /\ reg_call' = Call("add_reference_marker", <<point[1], point[2], marker_type>>,
                            IF image_item THEN PyNone ELSE PyRaise("AttributeError"),
                            HadMarker(marker_type))
        /\ UNCHANGED <<self_class, image_item, active_passed, ct_vars, view_vars, tool_vars, first_vars>>

ClearReferencePoints ==
    /\ clear_reference_points
    /\ reg_call' = Call("clear_reference_points", <<>>, PyNone, <<>>)
    /\ UNCHANGED <<self_class, image_item, active_passed, ct_vars, view_vars, tool_vars, first_vars>>

ClearReferenceMarkers ==
    /\ clear_reference_markers
    /\ reg_call' = Call("clear_reference_markers", <<>>, PyNone, <<>>)
    /\ UNCHANGED <<self_class, image_item, active_passed, ct_vars, view_vars, tool_vars, first_vars>>

LoadImage ==
    \E pixmap_is_null \in BOOLEAN :
        /\ load_image(pixmap_is_null)
        /\ reg_call' = Call("load_image", <<pixmap_is_null>>, ~pixmap_is_null, <<>>)
        /\ reg_events' = <<>>
        /\ UNCHANGED <<self_class, reference_markers, reference_order, series_markers,
                       series_order, georef_markers, scene_items, marker_objs,
                       next_marker, active_passed, ct_vars, view_vars, tool_vars, first_vars>>

\* the outcome of a viewer method that maps a point with self.image_item
MapOutcome == IF image_item THEN PyNone ELSE PyRaise("AttributeError")

AddDataPoint ==
    \E series_name \in SeriesNames, point \in MarkerPointInputs, is_active \in BOOLEAN :
        /\ next_marker <= MaxMarkers
        /\ add_data_point(series_name, point, is_active)
        /\ reg_call' = Call("add_data_point", <<series_name, point, is_active>>, PyNone,
                            <<>>)
        /\ UNCHANGED <<self_class, image_item, active_passed, ct_vars, view_vars, tool_vars, first_vars>>

AddDataMarker ==
    \E series_name \in SeriesNames, point \in MarkerPointInputs, is_active \in BOOLEAN :
        /\ next_marker <= MaxMarkers
        /\ add_data_marker(point[1], point[2], series_name, is_active)
        /\ reg_call' = Call("add_data_marker", <<series_name, point, is_active>>,
                            MapOutcome, <<>>)
        /\ UNCHANGED <<self_class, image_item, active_passed, ct_vars, view_vars, tool_vars, first_vars>>

AddGeorefPoint ==
    \E point \in MarkerPointInputs, point_type \in GeorefPointTypes :
        /\ next_marker <= MaxMarkers
        /\ add_georef_point(point, point_type)
        /\ reg_call' = Call("add_georef_point", <<point, point_type>>, PyNone, <<>>)
        /\ UNCHANGED <<self_class, image_item, active_passed, ct_vars, view_vars, tool_vars, first_vars>>

AddGeorefMarker ==
    \E point \in MarkerPointInputs :
        /\ next_marker <= MaxMarkers
        /\ add_georef_marker(point[1], point[2])
        /\ reg_call' = Call("add_georef_marker", <<point>>, MapOutcome, <<>>)
        /\ UNCHANGED <<self_class, image_item, active_passed, ct_vars, view_vars, tool_vars, first_vars>>

UpdateSeriesColors ==
    \E active_series \in SeriesNames :
        /\ update_series_colors(self_class, active_series)
        /\ reg_call' = Call("update_series_colors", <<active_series>>, PyNone, <<>>)
        /\ active_passed' = <<active_series>>
        /\ UNCHANGED <<self_class, image_item, ct_vars, view_vars, tool_vars, first_vars>>

ClearSeries ==
    \E series_name \in SeriesNames :
        /\ clear_series(series_name)
        /\ reg_call' = Call("clear_series", <<series_name>>, PyNone, <<>>)
        /\ UNCHANGED <<self_class, image_item, active_passed, ct_vars, view_vars, tool_vars, first_vars>>

ClearSeriesMarkers ==
    \E series_name \in {PyNone} \cup {PyStr(n) : n \in SeriesNames} :
        /\ clear_series_markers(series_name)
        /\ reg_call' = Call("clear_series_markers", <<series_name>>, PyNone, <<>>)
        /\ UNCHANGED <<self_class, image_item, active_passed, ct_vars, view_vars, tool_vars, first_vars>>

ClearGeorefPoints ==
    /\ clear_georef_points
    /\ reg_call' = Call("clear_georef_points", <<>>, PyNone, <<>>)
    /\ UNCHANGED <<self_class, image_item, active_passed, ct_vars, view_vars, tool_vars, first_vars>>

ClearGeorefMarkers ==
    /\ clear_georef_markers
    /\ reg_call' = Call("clear_georef_markers", <<>>, PyNone, <<>>)
    /\ UNCHANGED <<self_class, image_item, active_passed, ct_vars, view_vars, tool_vars, first_vars>>

ClearAll ==
    /\ clear_all
    /\ reg_call' = Call("clear_all", <<>>, PyNone,
                        <<DOMAIN series_markers, Len(georef_markers),
                          DOMAIN reference_markers>>)
    /\ UNCHANGED <<self_class, image_item, active_passed, ct_vars, view_vars, tool_vars, first_vars>>

(***************************************************************************)
(* ImageGraphicsView, and the mode, pointer and status bar handling of      *)
(* ImageViewerWidget.                                                       *)
(***************************************************************************)
Buttons == {"LeftButton", "MiddleButton", "RightButton"}

\* the size of the pixmap load_image shows, its top left corner at the scene origin
ImageSize == <<64, 48>>

\* a pointer event: event.pos() in the viewport, and mapToScene(event.pos()), which
\* follows the zoom and scroll of the view: two inside the image, one outside
PointerInputs == {[pos |-> <<0, 0>>, scene |-> <<10, 20>>],
                  [pos |-> <<40, 30>>, scene |-> <<30, 40>>],
                  [pos |-> <<70, 5>>, scene |-> <<-5, 20>>]}

QPoint(p) == [t |-> "QPoint", v |-> p]

\* self.image_item and self.image_item.contains(scene_pos)
image_contains(scene_pos) ==
    /\ image_item
    /\ 0 <= scene_pos[1] /\ scene_pos[1] < ImageSize[1]
    /\ 0 <= scene_pos[2] /\ scene_pos[2] < ImageSize[2]

\* QGraphicsItem.mapFromScene of the image item, which stays at the scene's origin
mapFromScene(p) == p

\* what a handler emitted and passed on: the view's mouseClicked and
\* mousePositionChanged signals, the widget's signals of the same names, the call
\* of the base class handler, the scroll bar change of a pan drag
NoOut == [clicked |-> <<>>, position |-> <<>>, widget_clicked |-> <<>>,
          widget_position |-> <<>>, transformed |-> <<>>, super |-> FALSE,
          scroll |-> <<>>]

PlaceholderPixel == "X: --, Y: --"

PlaceholderPlot == "Plot X: --, Plot Z: --"

set_pan_mode_keeps_digitize(enabled) ==
    /\ pan_mode' = enabled
    /\ cursor' = IF enabled THEN "OpenHandCursor" ELSE "ArrowCursor"
    /\ UNCHANGED <<digitize_mode, h_line, lines_shown, crosshair_visible, crosshair_pos>>

\* ImageGraphicsView.set_pan_mode
set_pan_mode(enabled) ==
    /\ pan_mode' = enabled
    /\ digitize_mode' = IF enabled THEN FALSE ELSE digitize_mode
    /\ cursor' = IF enabled THEN "OpenHandCursor" ELSE "ArrowCursor"
    /\ UNCHANGED <<h_line, lines_shown, crosshair_visible, crosshair_pos>>

set_digitize_mode_stays_on(enabled) ==
    /\ digitize_mode' = (digitize_mode \/ enabled)
    /\ pan_mode' = IF enabled THEN FALSE ELSE pan_mode
    /\ cursor' = IF enabled THEN "CrossCursor" ELSE "ArrowCursor"
    /\ h_line' = (h_line \/ enabled)
    /\ lines_shown' = IF enabled THEN (h_line /\ lines_shown) ELSE FALSE
    /\ crosshair_visible' = IF ~enabled /\ h_line THEN FALSE ELSE crosshair_visible
    /\ UNCHANGED crosshair_pos

\* ImageGraphicsView.set_digitize_mode; create_crosshair_lines adds the two lines,
\* hidden, the first time
set_digitize_mode(enabled) ==
    /\ digitize_mode' = enabled
    /\ pan_mode' = IF enabled THEN FALSE ELSE pan_mode
    /\ cursor' = IF enabled THEN "CrossCursor" ELSE "ArrowCursor"
    /\ h_line' = (h_line \/ enabled)
    /\ lines_shown' = IF enabled THEN (h_line /\ lines_shown) ELSE FALSE
    /\ crosshair_visible' = IF ~enabled /\ h_line THEN FALSE ELSE crosshair_visible
    /\ UNCHANGED crosshair_pos

toggle_pan_mode_leaves_other(checked) ==
    /\ set_pan_mode(checked)
    /\ UNCHANGED action_digitize_checked

\* ImageViewerWidget.toggle_pan_mode
toggle_pan_mode(checked) ==
    /\ set_pan_mode(checked)
    /\ action_digitize_checked' = IF checked THEN FALSE ELSE action_digitize_checked

\* ImageViewerWidget.toggle_digitize_mode
toggle_digitize_mode(checked) ==
    /\ set_digitize_mode(checked)
    /\ action_pan_checked' = IF checked THEN FALSE ELSE action_pan_checked

\* ImageViewerWidget._on_mouse_clicked, the slot of the view's mouseClicked: the
\* widget's mouseClicked emissions
on_mouse_clicked(scene_pos, button) ==
    IF image_contains(scene_pos)
    THEN <<<<mapFromScene(scene_pos)[1], mapFromScene(scene_pos)[2], button>>>>
    ELSE <<>>

\* ImageGraphicsView.mousePressEvent, with the slot connected to mouseClicked
mousePressEvent(pointer, button) ==
    IF digitize_mode /\ button = "LeftButton"
    THEN /\ view_out' = [NoOut EXCEPT !.clicked = <<<<pointer.scene, button>>>>,
                                      !.widget_clicked = on_mouse_clicked(pointer.scene, button)]
         /\ UNCHANGED <<pan_start_pos, cursor>>
    ELSE IF button = "MiddleButton" \/ (button = "LeftButton" /\ pan_mode)
    THEN /\ pan_start_pos' = QPoint(pointer.pos)
         /\ cursor' = "ClosedHandCursor"
         /\ view_out' = NoOut
    ELSE /\ view_out' = [NoOut EXCEPT !.super = TRUE]
         /\ UNCHANGED <<pan_start_pos, cursor>>

\* ImageViewerWidget.set_coordinate_transform_callback
set_coordinate_transform_callback(cb) == callback' = cb

\* the callbacks installed: none, or pixel_to_real of the CoordinateTransform
CallbackInputs == {"None", "pixel_to_real"}

\* self.coordinate_transform_callback(x, y)
call_transform(x, y) == pixel_to_real(FromInt(x), FromInt(y))

PixelText(x, y) ==
    "X: " \o FormatFixed(FromInt(x), 1) \o ", Y: " \o FormatFixed(FromInt(y), 1)

PlotText(plot_coords) ==
    "Plot X: " \o FormatFixed(plot_coords.v[1], 3)
        \o ", Plot Z: " \o FormatFixed(plot_coords.v[2], 3)

on_mouse_position_changed_keeps_text(scene_pos, out) ==
    LET img_pos     == mapFromScene(scene_pos)
        plot_coords == call_transform(img_pos[1], img_pos[2])
    IN  IF image_contains(scene_pos)
        THEN /\ coord_label' = PixelText(img_pos[1], img_pos[2])
             /\ IF callback /= "None"
                THEN /\ plot_coord_label' =
                            IF plot_coords.t = "tuple" THEN PlotText(plot_coords)
                            ELSE plot_coord_label
                     /\ view_out' = [out EXCEPT !.widget_position = <<img_pos>>,
                                                !.transformed = <<plot_coords>>]
                ELSE /\ plot_coord_label' = PlaceholderPlot
                     /\ view_out' = [out EXCEPT !.widget_position = <<img_pos>>]
        ELSE /\ coord_label' = PlaceholderPixel
             /\ plot_coord_label' = PlaceholderPlot
             /\ view_out' = out

\* ImageViewerWidget._on_mouse_position_changed, the slot of the view's
\* mousePositionChanged; `out` is what the view's handler emits and passes on
on_mouse_position_changed(scene_pos, out) ==
    LET img_pos     == mapFromScene(scene_pos)
        plot_coords == call_transform(img_pos[1], img_pos[2])
    IN  IF image_contains(scene_pos)
        THEN /\ coord_label' = PixelText(img_pos[1], img_pos[2])
             /\ IF callback /= "None"
                THEN /\ plot_coord_label' =
                            IF plot_coords.t = "raise" THEN plot_coord_label
                            ELSE IF Truthy(plot_coords) THEN PlotText(plot_coords)
                            ELSE PlaceholderPlot
                     /\ view_out' = [out EXCEPT !.widget_position = <<img_pos>>,
                                                !.transformed = <<plot_coords>>]
                ELSE /\ plot_coord_label' = PlaceholderPlot
                     /\ view_out' = [out EXCEPT !.widget_position = <<img_pos>>]
        ELSE /\ coord_label' = PlaceholderPixel
             /\ plot_coord_label' = PlaceholderPlot
             /\ view_out' = out

\* ImageGraphicsView.update_crosshair
update_crosshair(scene_pos) ==
    IF digitize_mode /\ h_line
    THEN /\ crosshair_pos' = <<scene_pos>>
         /\ lines_shown' = (lines_shown \/ ~crosshair_visible)
         /\ crosshair_visible' = TRUE
    ELSE IF h_line /\ crosshair_visible
    THEN /\ lines_shown' = FALSE
         /\ crosshair_visible' = FALSE
         /\ UNCHANGED crosshair_pos
    ELSE UNCHANGED <<crosshair_pos, lines_shown, crosshair_visible>>

\* ImageGraphicsView.mouseMoveEvent, with the slot connected to
\* mousePositionChanged
mouseMoveEvent(pointer) ==
    LET panning == Truthy(pan_start_pos)
        delta   == <<pointer.pos[1] - pan_start_pos.v[1], pointer.pos[2] - pan_start_pos.v[2]>>
    IN  /\ on_mouse_position_changed(pointer.scene,
               [NoOut EXCEPT !.position = <<pointer.scene>>,
                             !.scroll = IF panning THEN <<delta>> ELSE <<>>,
                             !.super = ~panning])
        /\ update_crosshair(pointer.scene)
        /\ pan_start_pos' = IF panning THEN QPoint(pointer.pos) ELSE pan_start_pos

\* ImageGraphicsView.mouseReleaseEvent
mouseReleaseEvent ==
    IF Truthy(pan_start_pos)
    THEN /\ pan_start_pos' = PyNone
         /\ cursor' = IF pan_mode THEN "OpenHandCursor" ELSE "ArrowCursor"
         /\ view_out' = NoOut
    ELSE /\ view_out' = [NoOut EXCEPT !.super = TRUE]
         /\ UNCHANGED <<pan_start_pos, cursor>>

ViewInit ==
    /\ pan_mode = FALSE
    /\ digitize_mode = FALSE
    /\ pan_start_pos = PyNone
    /\ cursor = "ArrowCursor"
    /\ h_line = FALSE
    /\ lines_shown = FALSE
    /\ crosshair_visible = FALSE
    /\ crosshair_pos = <<>>
    /\ action_pan_checked = FALSE
    /\ action_digitize_checked = FALSE
    /\ callback = "None"
    /\ coord_label = "X: 0.0, Y: 0.0"
    /\ plot_coord_label = PlaceholderPlot
    /\ view_call = Call("__init__", <<>>, PyNone, <<>>)
    /\ view_out = NoOut

\* the mode the view was in when the call was made
ModeBefore == <<pan_mode, digitize_mode>>

\* for a pointer event: the mode, whether an image was loaded, and the callback
EventBefore == <<pan_mode, digitize_mode, image_item, callback>>

SetPanMode ==
    \E enabled \in BOOLEAN :
        /\ set_pan_mode(enabled)
        /\ view_call' = Call("set_pan_mode", <<enabled>>, PyNone, ModeBefore)
        /\ view_out' = NoOut
        /\ UNCHANGED <<pan_start_pos, toolbar_vars, label_vars, ct_vars, reg_vars, tool_vars, first_vars>>

SetDigitizeMode ==
    \E enabled \in BOOLEAN :
        /\ set_digitize_mode(enabled)
        /\ view_call' = Call("set_digitize_mode", <<enabled>>, PyNone, ModeBefore)
        /\ view_out' = NoOut
        /\ UNCHANGED <<pan_start_pos, toolbar_vars, label_vars, ct_vars, reg_vars, tool_vars, first_vars>>

\* the user clicks the checkable Pan action: it changes its checked state and its
\* triggered signal calls toggle_pan_mode(checked)
TogglePanMode ==
    /\ action_pan_checked' = ~action_pan_checked
    /\ toggle_pan_mode(~action_pan_checked)
    /\ view_call' = Call("toggle_pan_mode", <<~action_pan_checked>>, PyNone, ModeBefore)
    /\ view_out' = NoOut
    /\ UNCHANGED <<pan_start_pos, label_vars, ct_vars, reg_vars, tool_vars, first_vars>>

ToggleDigitizeMode ==
    /\ action_digitize_checked' = ~action_digitize_checked
    /\ toggle_digitize_mode(~action_digitize_checked)
    /\ view_call' = Call("toggle_digitize_mode", <<~action_digitize_checked>>, PyNone,
                         ModeBefore)
    /\ view_out' = NoOut
    /\ UNCHANGED <<pan_start_pos, label_vars, ct_vars, reg_vars, tool_vars, first_vars>>

MousePress ==
    \E pointer \in PointerInputs, button \in Buttons :
        /\ mousePressEvent(pointer, button)
        /\ view_call' = Call("mousePressEvent", <<pointer, button>>, PyNone, EventBefore)
        /\ UNCHANGED <<pan_mode, digitize_mode, h_line, lines_shown, crosshair_visible,
                       crosshair_pos, toolbar_vars, label_vars, ct_vars, reg_vars, tool_vars, first_vars>>

MouseMove ==
    \E pointer \in PointerInputs :
        /\ mouseMoveEvent(pointer)
        /\ view_call' = Call("mouseMoveEvent", <<pointer>>, PyNone, EventBefore)
        /\ UNCHANGED <<pan_mode, digitize_mode, cursor, h_line, toolbar_vars, callback,
                       ct_vars, reg_vars, tool_vars, first_vars>>

MouseRelease ==
    /\ mouseReleaseEvent
    /\ view_call' = Call("mouseReleaseEvent", <<>>, PyNone, ModeBefore)
    /\ UNCHANGED <<pan_mode, digitize_mode, h_line, lines_shown, crosshair_visible,
                   crosshair_pos, toolbar_vars, label_vars, ct_vars, reg_vars, tool_vars, first_vars>>

SetCoordinateTransformCallback ==
    \E cb \in CallbackInputs :
        /\ set_coordinate_transform_callback(cb)
        /\ view_call' = Call("set_coordinate_transform_callback", <<cb>>, PyNone,
                             ModeBefore)
        /\ view_out' = NoOut
        /\ UNCHANGED <<mode_vars, pan_start_pos, toolbar_vars, coord_label,
                       plot_coord_label, ct_vars, reg_vars, tool_vars, first_vars>>

(***************************************************************************)
(* DigitizeMapTool: the map tool that collects the points pressed on the     *)
(* canvas, with a QgsVertexMarker for each.                                 *)
(***************************************************************************)
MaxPoints == 3

\* event.pos() of a press on the canvas
PressInputs == {<<0, 0>>, <<40, 30>>}

\* QgsMapTool.toMapCoordinates: the canvas shows two map units per pixel, the
\* top left pixel at map (100, 500), the map's y axis pointing up
toMapCoordinates(pos) == <<100 + 2 * pos[1], 500 - 2 * pos[2]>>

\* the points add_point is called with
ToolPointInputs == {toMapCoordinates(pos) : pos \in PressInputs}

\* the colours of set_point_color: the default one and another
ColorInputs == {QColor(255, 0, 0), QColor(0, 0, 255)}

\* a QgsVertexMarker as add_point sets it up
VertexMarker(center, color) ==
    [center |-> center, color |-> color, size |-> 8, icon |-> "ICON_CROSS",
     pen_width |-> 2]

\* DigitizeMapTool.add_point
add_point(point) ==
    /\ points' = Append(points, point)
    /\ markers' = Append(markers, next_tool_marker)
    /\ tool_objs' = Put(tool_objs, next_tool_marker, VertexMarker(point, point_color))
    /\ canvas_items' = canvas_items \cup {next_tool_marker}
    /\ next_tool_marker' = next_tool_marker + 1
    /\ tool_events' = <<Draw(next_tool_marker)>>
    /\ UNCHANGED point_color

canvasPressEvent_any_button(pos, button) ==
    /\ add_point(toMapCoordinates(pos))
    /\ callback_calls' = <<toMapCoordinates(pos)>>

\* DigitizeMapTool.canvasPressEvent
canvasPressEvent(pos, button) ==
    IF button = "LeftButton"
    THEN /\ add_point(toMapCoordinates(pos))
         /\ callback_calls' = <<toMapCoordinates(pos)>>
    ELSE /\ callback_calls' = <<>>
         /\ tool_events' = <<>>
         /\ UNCHANGED <<points, markers, tool_objs, canvas_items, next_tool_marker,
                        point_color>>

\* DigitizeMapTool.clear_points
clear_points ==
    /\ points' = <<>>
    /\ canvas_items' = canvas_items \ Range(markers)
    /\ tool_events' = EraseEach(markers)
    /\ markers' = <<>>
    /\ tool_objs' = EmptyDict
    /\ UNCHANGED <<point_color, next_tool_marker>>

\* DigitizeMapTool.set_point_color
set_point_color(color) ==
    /\ point_color' = color
    /\ tool_objs' = [h \in DOMAIN tool_objs |-> [tool_objs[h] EXCEPT !.color = color]]
    /\ tool_events' = <<>>
    /\ UNCHANGED <<points, markers, canvas_items, next_tool_marker>>

\* DigitizeMapTool.deactivate
deactivate == clear_points

\* DigitizeMapTool.__init__ with the default point_color
ToolInit ==
    /\ points = <<>>
    /\ markers = <<>>
    /\ point_color = QColor(255, 0, 0)
    /\ canvas_items = {}
    /\ tool_objs = EmptyDict
    /\ next_tool_marker = 1
    /\ tool_call = Call("__init__", <<>>, PyNone, <<>>)
    /\ tool_events = <<>>
    /\ callback_calls = <<>>

\* the two lists when the call was made
ListsBefore == <<points, markers>>

CanvasPress ==
    \E pos \in PressInputs, button \in Buttons :
        /\ next_tool_marker <= MaxPoints
        /\ canvasPressEvent(pos, button)
        /\ tool_call' = Call("canvasPressEvent", <<pos, button>>, PyNone, ListsBefore)
        /\ UNCHANGED <<ct_vars, reg_vars, view_vars, first_vars>>

AddPoint ==
    \E point \in ToolPointInputs :
        /\ next_tool_marker <= MaxPoints
        /\ add_point(point)
        /\ callback_calls' = <<>>
        /\ tool_call' = Call("add_point", <<point>>, PyNone, ListsBefore)
        /\ UNCHANGED <<ct_vars, reg_vars, view_vars, first_vars>>

SetPointColor ==
    \E color \in ColorInputs :
        /\ set_point_color(color)
        /\ callback_calls' = <<>>
        /\ tool_call' = Call("set_point_color", <<color>>, PyNone, ListsBefore)
        /\ UNCHANGED <<ct_vars, reg_vars, view_vars, first_vars>>

ClearPoints ==
    /\ clear_points
    /\ callback_calls' = <<>>
    /\ tool_call' = Call("clear_points", <<>>, PyNone, ListsBefore)
    /\ UNCHANGED <<ct_vars, reg_vars, view_vars, first_vars>>

Deactivate ==
    /\ deactivate
    /\ callback_calls' = <<>>
    /\ tool_call' = Call("deactivate", <<>>, PyNone, ListsBefore)
    /\ UNCHANGED <<ct_vars, reg_vars, view_vars, first_vars>>

(***************************************************************************)
(* The first CoordinateTransform class definition of map_tools.py, which     *)
(* the second one replaces when the module is loaded: an object of it, run   *)
(* side by side with an object of the second.                               *)
(***************************************************************************)
first_is_calibrated ==
    /\ \A pt \in {"origin", "x_ref", "y_ref"} : pt \in DOMAIN first_reference_points
    /\ \A val \in {"origin", "x_ref", "y_ref"} : val \in DOMAIN first_reference_values

first_pixel_to_real(pixel_x, pixel_y) ==
    IF ~first_is_calibrated THEN PyNone
    ELSE LET origin_px == first_reference_points["origin"].v[1]
             origin_py == first_reference_points["origin"].v[2]
             x_ref_px  == first_reference_points["x_ref"].v[1]
             y_ref_py  == first_reference_points["y_ref"].v[2]
             origin_x  == first_reference_values["origin"].v[1]
             origin_y  == first_reference_values["origin"].v[2]
             x_ref_val == first_reference_values["x_ref"]
             y_ref_val == first_reference_values["y_ref"]
             x_scale   == IF x_ref_px /= origin_px
                          THEN PyTrueDiv(FSub(x_ref_val, origin_x), FSub(x_ref_px, origin_px))
                          ELSE FromInt(1)
             y_scale   == IF y_ref_py /= origin_py
                          THEN PyTrueDiv(FSub(y_ref_val, origin_y), FSub(y_ref_py, origin_py))
                          ELSE FromInt(1)
         IN  IF x_scale.t = "raise" THEN x_scale
             ELSE IF y_scale.t = "raise" THEN y_scale
             ELSE PyTuple(FAdd(origin_x, FMul(FSub(pixel_x, origin_px), x_scale)),
                          FAdd(origin_y, FMul(FSub(pixel_y, origin_py), y_scale)))

first_set_reference_point_unless_none(point_type, pixel_coords, real_coords) ==
    /\ first_reference_points' = Put(first_reference_points, point_type, pixel_coords)
    /\ first_reference_values' = IF real_coords.t /= "None"
                                 THEN Put(first_reference_values, point_type, real_coords)
                                 ELSE first_reference_values

first_set_reference_point(point_type, pixel_coords, real_coords) ==
    /\ first_reference_points' = Put(first_reference_points, point_type, pixel_coords)
    /\ first_reference_values' = IF Truthy(real_coords)
                                 THEN Put(first_reference_values, point_type, real_coords)
                                 ELSE first_reference_values

first_set_reference_value(point_type, value) ==
    /\ first_reference_values' = Put(first_reference_values, point_type, value)
    /\ UNCHANGED first_reference_points

first_clear ==
    /\ first_reference_points' = EmptyDict
    /\ first_reference_values' = EmptyDict

\* the first CoordinateTransform object, as constructed
FirstInit ==
    /\ first_reference_points = EmptyDict
    /\ first_reference_values = EmptyDict
    /\ first_call = Call("__init__", <<>>, PyNone, <<>>)

\* the same call made on an object of each of the two classes
BothSetReferencePoint ==
    \E point_type \in PointTypes, pixel_coords \in PixelInputs :
      \E real_coords \in RealCoordsInputs(point_type) :
        /\ set_reference_point(point_type, pixel_coords, real_coords)
        /\ first_set_reference_point(point_type, pixel_coords, real_coords)
        /\ ct_call' = Call("set_reference_point",
                           <<point_type, pixel_coords, real_coords>>, PyNone, <<>>)
        /\ first_call' = Call("set_reference_point",
                              <<point_type, pixel_coords, real_coords>>, PyNone, <<>>)
        /\ supplied_pixels' = supplied_pixels \cup {point_type}
        /\ supplied_values' = IF real_coords.t /= "None"
                              THEN supplied_values \cup {point_type}
                              ELSE supplied_values
        /\ UNCHANGED <<reg_vars, view_vars, tool_vars>>

BothSetReferenceValue ==
    \E point_type \in PointTypes :
      \E value \in ValueInputs(point_type) :
        /\ set_reference_value(point_type, value)
        /\ first_set_reference_value(point_type, value)
        /\ ct_call' = Call("set_reference_value", <<point_type, value>>, PyNone, <<>>)
        /\ first_call' = Call("set_reference_value", <<point_type, value>>, PyNone, <<>>)
        /\ supplied_values' = supplied_values \cup {point_type}
        /\ UNCHANGED <<supplied_pixels, reg_vars, view_vars, tool_vars>>

BothClear ==
    /\ clear
    /\ first_clear
    /\ ct_call' = Call("clear", <<>>, PyNone,
                       <<DOMAIN reference_points, DOMAIN reference_values>>)
    /\ first_call' = Call("clear", <<>>, PyNone,
                          <<DOMAIN first_reference_points, DOMAIN first_reference_values>>)
    /\ supplied_pixels' = {}
    /\ supplied_values' = {}
    /\ UNCHANGED <<reg_vars, view_vars, tool_vars>>

BothIsCalibrated ==
    /\ ct_call' = Call("is_calibrated", <<>>, is_calibrated, <<>>)
    /\ first_call' = Call("is_calibrated", <<>>, first_is_calibrated, <<>>)
    /\ UNCHANGED <<reference_points, reference_values, supplied_pixels, supplied_values,
                   first_reference_points, first_reference_values>>
    /\ UNCHANGED <<reg_vars, view_vars, tool_vars>>

BothPixelToReal ==
    \E q \in QueryInputs :
        /\ ct_call' = Call("pixel_to_real", q, pixel_to_real(q[1], q[2]), <<>>)
        /\ first_call' = Call("pixel_to_real", q, first_pixel_to_real(q[1], q[2]), <<>>)
        /\ UNCHANGED <<reference_points, reference_values, supplied_pixels, supplied_values,
                       first_reference_points, first_reference_values>>
        /\ UNCHANGED <<reg_vars, view_vars, tool_vars>>

vars == <<ct_vars, reg_vars, view_vars, tool_vars, first_vars>>

\* the transform alone, the registry left as constructed
Init == CTInit /\ RegInit /\ self_class = "PointMarkerManager" /\ ViewInit /\ ToolInit
            /\ FirstInit

Next ==
    \/ SetReferencePoint
    \/ SetReferenceValue
    \/ Clear
    \/ IsCalibrated
    \/ PixelToReal

Spec == Init /\ [][Next]_vars

\* a marker registry alone (either class), the transform left as constructed
RegistryInit == RegInit /\ CTInit /\ ViewInit /\ ToolInit /\ FirstInit

RegistryNext ==
    \/ AddReferencePoint
    \/ AddReferenceMarker
    \/ ClearReferencePoints
    \/ ClearReferenceMarkers
    \/ LoadImage

RegistrySpec == RegistryInit /\ [][RegistryNext]_vars

\* a marker registry with all of its operations
MarkersNext ==
    \/ AddReferencePoint
    \/ AddReferenceMarker
    \/ ClearReferencePoints
    \/ ClearReferenceMarkers
    \/ LoadImage
    \/ AddDataPoint
    \/ AddDataMarker
    \/ AddGeorefPoint
    \/ AddGeorefMarker
    \/ UpdateSeriesColors
    \/ ClearSeries
    \/ ClearSeriesMarkers
    \/ ClearGeorefPoints
    \/ ClearGeorefMarkers
    \/ ClearAll

MarkersSpec == RegistryInit /\ [][MarkersNext]_vars

\* the image viewer: its view, toolbar and status bar, with a transform that is
\* left as constructed
ViewerInit == CTInit /\ RegInit /\ self_class = "ImageViewerWidget" /\ ViewInit /\ ToolInit
                  /\ FirstInit

ViewNext ==
    \/ SetPanMode
    \/ SetDigitizeMode
    \/ TogglePanMode
    \/ ToggleDigitizeMode
    \/ MousePress
    \/ MouseMove
    \/ MouseRelease
    \/ SetCoordinateTransformCallback
    \/ LoadImage

ViewSpec == ViewerInit /\ [][ViewNext]_vars

\* the status bar of the image viewer over a transform that was calibrated
PointerNext ==
    \/ Clear
    \/ SetCoordinateTransformCallback
    \/ LoadImage
    \/ MouseMove

\* the state a calibration leaves: each role placed by set_reference_point with
\* a real value, which keeps the values that are truthy
PointerInit ==
    /\ \E pixels \in [PointTypes -> PixelInputs] :
         \E values \in {f \in [PointTypes -> UNION {ValueInputs(k) : k \in PointTypes}] :
                            \A k \in PointTypes : f[k] \in ValueInputs(k)} :
            /\ reference_points = pixels
            /\ reference_values = [k \in {r \in PointTypes : Truthy(values[r])} |-> values[k]]
            /\ ct_call = Call("set_reference_point",
                              <<"y_ref", pixels["y_ref"], values["y_ref"]>>, PyNone, <<>>)
    /\ supplied_pixels = PointTypes
    /\ supplied_values = PointTypes
    /\ RegInit
    /\ self_class = "ImageViewerWidget"
    /\ ViewInit
    /\ ToolInit
    /\ FirstInit

PointerSpec == PointerInit /\ [][PointerNext]_vars

\* the image viewer as its user drives it: the two toolbar actions, pointer
\* events, images loaded
ToolbarNext ==
    \/ TogglePanMode
    \/ ToggleDigitizeMode
    \/ MousePress
    \/ MouseMove
    \/ MouseRelease
    \/ LoadImage

ToolbarSpec == ViewerInit /\ [][ToolbarNext]_vars

\* an object of each CoordinateTransform class, given the same calls
BothNext ==
    \/ BothSetReferencePoint
    \/ BothSetReferenceValue
    \/ BothClear
    \/ BothIsCalibrated
    \/ BothPixelToReal

BothSpec == Init /\ [][BothNext]_vars

\* a DigitizeMapTool alone
ToolNext ==
    \/ CanvasPress
    \/ AddPoint
    \/ SetPointColor
    \/ ClearPoints
    \/ Deactivate

ToolSpec == Init /\ [][ToolNext]_vars

(***************************************************************************)
(* Properties of CoordinateTransform.                                      *)
(***************************************************************************)
AllRolesInBothMaps ==
    /\ PointTypes \subseteq DOMAIN reference_points
    /\ PointTypes \subseteq DOMAIN reference_values

AllRolesSupplied ==
    /\ PointTypes \subseteq supplied_pixels
    /\ PointTypes \subseteq supplied_values

\* the last call was pixel_to_real, and these are its arguments and its outcome
Asked == ct_call.op = "pixel_to_real"
AskedX == ct_call.args[1]
AskedY == ct_call.args[2]
Answer == ct_call.ret

OriginPixel == reference_points["origin"].v
XRefPixel == reference_points["x_ref"].v
YRefPixel == reference_points["y_ref"].v
OriginValue == reference_values["origin"].v
XRefValue == reference_values["x_ref"]
YRefValue == reference_values["y_ref"]

XDegenerate == XRefPixel[1] = OriginPixel[1]
YDegenerate == YRefPixel[2] = OriginPixel[2]

\* C1: in every reachable state is_calibrated() is true iff origin, x_ref and y_ref
\* are all keys of reference_points and all keys of reference_values; a call of
\* is_calibrated() returns exactly that.
C1_IsCalibratedIffAllRoles ==
    /\ is_calibrated <=> AllRolesInBothMaps
    /\ ct_call.op = "is_calibrated" => (ct_call.ret <=> AllRolesInBothMaps)

C1_Witness ==
    /\ ct_call.op = "is_calibrated"
    /\ ct_call.ret = TRUE
    /\ AllRolesInBothMaps

\* C2 (as claimed): after every call, is_calibrated() is false while some role still
\* lacks a supplied pixel or a supplied value, and true as soon as the last missing
\* item has been supplied, whatever the order and the call used to supply it.
C2_CalibratedIffAllSupplied == is_calibrated <=> AllRolesSupplied

\* C3: when the transform is not calibrated, pixel_to_real returns None for every
\* input: no numeric pair, no exception.
C3_UncalibratedReturnsNone ==
    (Asked /\ ~AllRolesInBothMaps) => Answer = PyNone

C3_Witness ==
    /\ Asked
    /\ PointTypes \subseteq DOMAIN reference_points
    /\ DOMAIN reference_values = {"origin", "x_ref"}
    /\ Answer = PyNone

\* C4: when calibrated, pixel_to_real(px, py) returns
\*   (origin_value.x + (px - origin_pixel.x) * scale_x,
\*    origin_value.y + (py - origin_pixel.y) * scale_y)
\* with scale_x = (x_ref_value - origin_value.x) / (x_ref_pixel.x - origin_pixel.x) and
\* scale_y likewise from the y components, whenever the denominator is nonzero; the
\* x of the result depends on px only and the y on py only; the same formula is used
\* for positions outside the reference segment.
C4_LinearFormula ==
    (Asked /\ AllRolesInBothMaps) =>
        /\ Answer.t = "tuple"
        /\ ~XDegenerate =>
              Answer.v[1] =
                  FAdd(OriginValue[1],
                       FMul(FSub(AskedX, OriginPixel[1]),
                            FDiv(FSub(XRefValue, OriginValue[1]),
                                 FSub(XRefPixel[1], OriginPixel[1]))))
        /\ ~YDegenerate =>
              Answer.v[2] =
                  FAdd(OriginValue[2],
                       FMul(FSub(AskedY, OriginPixel[2]),
                            FDiv(FSub(YRefValue, OriginValue[2]),
                                 FSub(YRefPixel[2], OriginPixel[2]))))
        /\ \A q \in QueryInputs :
              /\ q[1] = AskedX => pixel_to_real(q[1], q[2]).v[1] = Answer.v[1]
              /\ q[2] = AskedY => pixel_to_real(q[1], q[2]).v[2] = Answer.v[2]

\* a calibration with both axes well defined, asked beyond the reference segment
C4_Witness ==
    /\ Asked
    /\ AllRolesInBothMaps
    /\ OriginPixel = <<FromInt(25), FromInt(50)>>
    /\ XRefPixel = <<FromInt(0), FromInt(0)>>
    /\ YRefPixel = <<FromInt(0), FromInt(0)>>
    /\ OriginValue = <<FromInt(1), FromInt(2)>>
    /\ XRefValue = FromInt(7)
    /\ AskedX = FromInt(50)
    /\ AskedY = FromInt(100)
    /\ Answer.t = "tuple"

\* C5 (as claimed): for every calibration whose x_ref pixel x differs from the origin
\* pixel x and whose y_ref pixel y differs from the origin pixel y,
\* pixel_to_real(origin_pixel) = origin_value, the x of pixel_to_real(x_ref_pixel) is
\* x_ref_value and the y of pixel_to_real(y_ref_pixel) is y_ref_value.
C5_RoundTripAtReferencePoints ==
    (Asked /\ AllRolesInBothMaps /\ ~XDegenerate /\ ~YDegenerate) =>
        /\ <<AskedX, AskedY>> = OriginPixel => Answer.v = OriginValue
        /\ <<AskedX, AskedY>> = XRefPixel => Answer.v[1] = XRefValue
        /\ <<AskedX, AskedY>> = YRefPixel => Answer.v[2] = YRefValue

\* C6: when calibrated with x_ref pixel x equal to the origin pixel x, pixel_to_real
\* does not raise and real_x = origin_value.x + (px - origin_pixel.x), the scale
\* being 1; likewise for y when y_ref pixel y equals the origin pixel y.
C6_DegenerateAxisGuard ==
    (Asked /\ AllRolesInBothMaps) =>
        /\ Answer.t = "tuple"
        /\ XDegenerate =>
              Answer.v[1] = FAdd(OriginValue[1], FSub(AskedX, OriginPixel[1]))
        /\ YDegenerate =>
              Answer.v[2] = FAdd(OriginValue[2], FSub(AskedY, OriginPixel[2]))

C6_Witness ==
    /\ Asked
    /\ AllRolesInBothMaps
    /\ XDegenerate
    /\ ~YDegenerate
    /\ XRefValue = FromInt(7)
    /\ OriginValue = <<FromInt(1), FromInt(2)>>
    /\ AskedX = FromInt(50)
    /\ Answer.t = "tuple"

\* C7 (as claimed): set_reference_point(role, pixel, real) records pixel as the
\* pixel of role and, whenever a real value is supplied (a scalar axis value or a
\* coordinate pair), records it as the value of role, over any earlier ones.
C7_SetReferencePointRecords ==
    ct_call.op = "set_reference_point" =>
        /\ ct_call.args[1] \in DOMAIN reference_points
        /\ reference_points[ct_call.args[1]] = ct_call.args[2]
        /\ ct_call.args[3].t /= "None" =>
              /\ ct_call.args[1] \in DOMAIN reference_values
              /\ reference_values[ct_call.args[1]] = ct_call.args[3]

\* C8: set_reference_value(role, value) sets reference_values[role] to value and
\* changes nothing else: reference_points and the values of the other roles stay.
C8_SetReferenceValueFrame ==
    [][ct_call'.op = "set_reference_value" =>
          /\ reference_points' = reference_points
          /\ DOMAIN reference_values' = DOMAIN reference_values \cup {ct_call'.args[1]}
          /\ reference_values'[ct_call'.args[1]] = ct_call'.args[2]
          /\ \A k \in DOMAIN reference_values \ {ct_call'.args[1]} :
                reference_values'[k] = reference_values[k]]_vars

C8_Witness ==
    /\ ct_call.op = "set_reference_value"
    /\ ct_call.args[1] = "x_ref"
    /\ PointTypes \subseteq DOMAIN reference_points
    /\ PointTypes \subseteq DOMAIN reference_values

\* C9: clear() leaves reference_points and reference_values empty, so that right
\* after it is_calibrated() is false and pixel_to_real returns None; the transform
\* stays uncalibrated until all three roles have been supplied again.
C9_ClearEmptiesBoth ==
    /\ ct_call.op = "clear" =>
          /\ reference_points = EmptyDict
          /\ reference_values = EmptyDict
          /\ ~is_calibrated
          /\ \A q \in QueryInputs : pixel_to_real(q[1], q[2]) = PyNone
    /\ is_calibrated => AllRolesSupplied

\* clear() made on a calibrated transform
C9_Witness ==
    /\ ct_call.op = "clear"
    /\ ct_call.pre = <<PointTypes, PointTypes>>
    /\ reference_points = EmptyDict


\* the live markers of the scene that were drawn for a role
LiveMarkersOf(role) ==
    {h \in scene_items : marker_objs[h].made_for = <<"reference", role>>}

AddedReference == reg_call.op \in {"add_reference_point", "add_reference_marker"}

AddedRole == reg_call.args[Len(reg_call.args)]

Erased == {i \in DOMAIN reg_events : reg_events[i].ev = "erase"}

\* C10: in both registries each role has at most one recorded point and at most
\* one live marker in the scene, the recorded one; an add for a role that had a
\* marker erases exactly that marker and draws exactly one new one, an add for a
\* role without one erases nothing.
C10_OneMarkerPerRole ==
    /\ \A role \in RefTypes :
        /\ Cardinality(LiveMarkersOf(role)) <= 1
        /\ Cardinality({i \in DOMAIN reference_order : reference_order[i] = role}) <= 1
        /\ role \in DOMAIN reference_markers =>
               LiveMarkersOf(role) = {reference_markers[role]}
        /\ role \notin DOMAIN reference_markers => LiveMarkersOf(role) = {}
    /\ AddedReference /\ reg_call.pre /= <<>> /\ reg_call.ret.t = "None" =>
        /\ Len(reg_events) = 2
        /\ reg_events[1] = Erase(reg_call.pre[1])
        /\ reg_events[2] = Draw(reference_markers[AddedRole])
        /\ reg_call.pre[1] /= reference_markers[AddedRole]
        /\ reg_call.pre[1] \notin scene_items
    /\ AddedReference /\ reg_call.pre = <<>> =>
        /\ Erased = {}
        /\ reg_call.ret.t = "None" => reg_events = <<Draw(reference_markers[AddedRole])>>

\* a role is given a second point while another role keeps its own
C10_Witness ==
    /\ AddedReference
    /\ reg_call.pre /= <<>>
    /\ Cardinality(DOMAIN reference_markers) = 2
    /\ Cardinality(scene_items) = 2
    /\ Len(reg_events) = 2

\* the operation of the step being taken, and its arguments
Op == reg_call'.op

Arg(i) == reg_call'.args[i]

\* the series other than `name` are the same before and after the step
OtherSeriesKept(name) ==
    /\ DOMAIN series_markers' \ {name} = DOMAIN series_markers \ {name}
    /\ \A n \in DOMAIN series_markers \ {name} : series_markers'[n] = series_markers[n]
    /\ DelKey(series_order', name) = DelKey(series_order, name)

SeriesKept == UNCHANGED <<series_markers, series_order>>

GeorefKept == UNCHANGED georef_markers

ReferenceKept == UNCHANGED <<reference_markers, reference_order>>

\* a single series is being cleared by name
ClearsSeriesNamed(name) ==
    \/ Op = "clear_series" /\ Arg(1) = name
    \/ Op = "clear_series_markers" /\ Arg(1) = PyStr(name)

\* C11 (as claimed): clearing series A removes A and leaves every other series, the
\* georef collection and the reference markers as they were; clearing the georef
\* collection changes only it, clearing the reference markers changes only them;
\* an add changes only the category, and for a series point only the series, it
\* is made for.
C11_CategoryIsolation ==
    [][ /\ \A name \in SeriesNames : ClearsSeriesNamed(name) =>
              /\ name \notin DOMAIN series_markers'
              /\ OtherSeriesKept(name)
              /\ GeorefKept /\ ReferenceKept
        /\ Op \in {"clear_georef_points", "clear_georef_markers"} =>
              SeriesKept /\ ReferenceKept /\ georef_markers' = <<>>
        /\ Op \in {"clear_reference_points", "clear_reference_markers"} =>
              SeriesKept /\ GeorefKept /\ reference_markers' = EmptyDict
        /\ Op \in {"add_data_point", "add_data_marker"} =>
              OtherSeriesKept(Arg(1)) /\ GeorefKept /\ ReferenceKept
        /\ Op \in {"add_georef_point", "add_georef_marker"} =>
              SeriesKept /\ ReferenceKept
        /\ Op \in {"add_reference_point", "add_reference_marker"} =>
              SeriesKept /\ GeorefKept
      ]_vars

\* C12 (as claimed): clearing a single series by a name that is not a key of the
\* series collection is a no-op in both registries: no error, no marker erased,
\* the series, georef and reference collections and the scene as they were.
C12_ClearUnknownSeriesNoOp ==
    [][ \A name \in SeriesNames :
          (ClearsSeriesNamed(name) /\ name \notin DOMAIN series_markers) =>
              /\ reg_call'.ret = PyNone
              /\ reg_events' = <<>>
              /\ SeriesKept /\ GeorefKept /\ ReferenceKept
              /\ UNCHANGED <<scene_items, marker_objs>>
      ]_vars

\* the color of the i-th point of a series
PointColor(objs, series, n, i) == objs[series[n][i]].color

\* C13: a step of update_series_colors(X) leaves every point of series X with the
\* active color and every point of every other series with the inactive color,
\* whatever the colors were; it changes no collection, no order, no scene
\* membership and nothing else of a marker; taken right after
\* update_series_colors(X) it changes nothing.
C13_UpdateSeriesColors ==
    [][ Op = "update_series_colors" =>
          /\ \A n \in DOMAIN series_markers' : \A i \in DOMAIN series_markers'[n] :
                PointColor(marker_objs', series_markers', n, i) = series_color(n = Arg(1))
          /\ SeriesKept /\ GeorefKept /\ ReferenceKept
          /\ UNCHANGED <<scene_items, next_marker>>
          /\ DOMAIN marker_objs' = DOMAIN marker_objs
          /\ \A h \in DOMAIN marker_objs :
                /\ [marker_objs'[h] EXCEPT !.color = 0] = [marker_objs[h] EXCEPT !.color = 0]
                /\ SeriesOf(series_markers, h) = {} => marker_objs'[h] = marker_objs[h]
          /\ (reg_call.op = "update_series_colors" /\ reg_call.args = reg_call'.args) =>
                UNCHANGED marker_objs
      ]_vars

\* two series with a point each, recolored for "A": its point is active, the
\* other's is inactive
C13_Witness ==
    /\ reg_call.op = "update_series_colors"
    /\ reg_call.args = <<"A">>
    /\ DOMAIN series_markers = {"", "A"}
    /\ Len(series_markers["A"]) >= 1
    /\ Len(series_markers[""]) >= 1
    /\ PointColor(marker_objs, series_markers, "A", 1) = QColor(0, 0, 0)
    /\ PointColor(marker_objs, series_markers, "", 1) = QColor(128, 128, 128)

\* C14 (as claimed): once update_series_colors has been called, a series point
\* has the active color exactly when its series is the one last passed to
\* update_series_colors, in every state reached by adds, recolorings and clears.
C14_ColorFollowsActiveSeries ==
    active_passed /= <<>> =>
        \A n \in DOMAIN series_markers : \A i \in DOMAIN series_markers[n] :
            (PointColor(marker_objs, series_markers, n, i) = series_color(TRUE))
                <=> (n = active_passed[1])

\* the markers the events of the step erase
ErasedBy(events) == {events[i].h : i \in {j \in DOMAIN events : events[j].ev = "erase"}}

\* C15: a step of PointMarkerManager.clear_all(), from any population of the three
\* collections, leaves series_markers, georef_markers and reference_markers as
\* those of a new registry, with no series key left, and erases every marker that
\* was drawn, each once, drawing none.
C15_ClearAllTotality ==
    [][ Op = "clear_all" =>
          /\ series_markers' = EmptyDict /\ series_order' = <<>>
          /\ georef_markers' = <<>>
          /\ reference_markers' = EmptyDict /\ reference_order' = <<>>
          /\ scene_items' = {}
          /\ marker_objs' = EmptyDict
          /\ ErasedBy(reg_events') = scene_items
          /\ Len(reg_events') = Cardinality(scene_items)
      ]_vars

\* clear_all() was called with a series point, a georef point and a reference
\* point drawn, and erased the three
C15_Witness ==
    /\ reg_call.op = "clear_all"
    /\ reg_call.pre[1] /= {}
    /\ reg_call.pre[2] = 1
    /\ reg_call.pre[3] /= {}
    /\ Cardinality(ErasedBy(reg_events)) = 3
    /\ series_markers = EmptyDict /\ georef_markers = <<>> /\ reference_markers = EmptyDict
    /\ scene_items = {}

\* the points of a series before the step, none if there is no such series
PointsBefore(n) == IF n \in DOMAIN series_markers THEN series_markers[n] ELSE <<>>

\* C16 (as claimed): a step of add_data_point(series_name, point, is_active), or of
\* add_data_marker in the viewer, returns normally and leaves the named series
\* with its earlier points in their order followed by exactly one new point, drawn
\* at `point` (a series that did not exist then holds exactly that point);
\* is_active sets the new point's color and changes no other marker.
C16_AddDataAppendsOne ==
    [][ (Op = "add_data_point" \/ Op = "add_data_marker") =>
          /\ reg_call'.ret = PyNone
          /\ Arg(1) \in DOMAIN series_markers'
          /\ Len(series_markers'[Arg(1)]) = Len(PointsBefore(Arg(1))) + 1
          /\ SubSeq(series_markers'[Arg(1)], 1, Len(PointsBefore(Arg(1))))
                = PointsBefore(Arg(1))
          /\ LET new == series_markers'[Arg(1)][Len(series_markers'[Arg(1)])]
             IN  /\ new \notin DOMAIN marker_objs
                 /\ new \in scene_items'
                 /\ reg_events' = <<Draw(new)>>
                 /\ marker_objs'[new].center = Arg(2)
                 /\ marker_objs'[new].color = series_color(Arg(3))
          /\ OtherSeriesKept(Arg(1))
          /\ \A h \in DOMAIN marker_objs : marker_objs'[h] = marker_objs[h]
      ]_vars

(***************************************************************************)
(* The modes of the image view.                                            *)
(***************************************************************************)
Neutral  == ~pan_mode /\ ~digitize_mode
Pan      == pan_mode /\ ~digitize_mode
Digitize == ~pan_mode /\ digitize_mode

\* the mode before the last call of the view
WasPan      == view_call.pre[1] /\ ~view_call.pre[2]
WasDigitize == ~view_call.pre[1] /\ view_call.pre[2]

PanRequests      == {"set_pan_mode", "toggle_pan_mode"}
DigitizeRequests == {"set_digitize_mode", "toggle_digitize_mode"}

\* C17: pan_mode and digitize_mode are never both true; after a request to
\* switch Pan on digitize_mode is false, and after a request to switch
\* Digitize on pan_mode is false.
C17_ModeMutualExclusion ==
    /\ ~(pan_mode /\ digitize_mode)
    /\ (view_call.op \in PanRequests /\ view_call.args = <<TRUE>>)
            => (pan_mode /\ ~digitize_mode)
    /\ (view_call.op \in DigitizeRequests /\ view_call.args = <<TRUE>>)
            => (digitize_mode /\ ~pan_mode)

\* Pan was switched on while the view was in Digitize
C17_Witness ==
    /\ view_call.op = "set_pan_mode"
    /\ view_call.args = <<TRUE>>
    /\ WasDigitize
    /\ Pan

\* C18: switching off the active mode gives Neutral; a request to switch a
\* mode on gives that mode from each of the three states; and a request that
\* repeats the one before it, with the same argument, leaves the mode as it is.
C18_ModeTransitions ==
    [][ LET op == view_call'.op
            on == view_call'.args[1]
        IN  /\ (op = "set_pan_mode" \/ op = "toggle_pan_mode") =>
                /\ on => (pan_mode' /\ ~digitize_mode')
                /\ (~on /\ Pan) => (~pan_mode' /\ ~digitize_mode')
                /\ (view_call.op = op /\ view_call.args = view_call'.args) =>
                        (pan_mode' = pan_mode /\ digitize_mode' = digitize_mode)
            /\ (op = "set_digitize_mode" \/ op = "toggle_digitize_mode") =>
                /\ on => (digitize_mode' /\ ~pan_mode')
                /\ (~on /\ Digitize) => (~pan_mode' /\ ~digitize_mode')
                /\ (view_call.op = op /\ view_call.args = view_call'.args) =>
                        (pan_mode' = pan_mode /\ digitize_mode' = digitize_mode)
      ]_vars

\* Digitize was switched off while it was the active mode
C18_Witness ==
    /\ view_call.op = "set_digitize_mode"
    /\ view_call.args = <<FALSE>>
    /\ WasDigitize
    /\ Neutral

\* C19: a press is submitted by the view exactly when the view is in Digitize
\* and the button is the left one; in Pan a left press starts a pan drag (the
\* start position is kept and the handlers of move and release, which test it
\* for truth, find a drag in progress); the widget forwards a submitted click
\* exactly when an image is loaded and the click lies inside it.
C19_ClickGating ==
    view_call.op = "mousePressEvent" =>
        LET pointer == view_call.args[1]
            button  == view_call.args[2]
            inside  == /\ view_call.pre[3]
                       /\ 0 <= pointer.scene[1] /\ pointer.scene[1] < ImageSize[1]
                       /\ 0 <= pointer.scene[2] /\ pointer.scene[2] < ImageSize[2]
        IN  /\ (view_out.clicked /= <<>>) <=> (WasDigitize /\ button = "LeftButton")
            /\ view_out.clicked /= <<>> => view_out.clicked = <<<<pointer.scene, button>>>>
            /\ (WasPan /\ button = "LeftButton") =>
                    /\ pan_start_pos = QPoint(pointer.pos)
                    /\ Truthy(pan_start_pos)
                    /\ cursor = "ClosedHandCursor"
            /\ (view_out.widget_clicked /= <<>>) <=> (view_out.clicked /= <<>> /\ inside)
            /\ view_out.widget_clicked /= <<>> =>
                    view_out.widget_clicked = <<<<pointer.scene[1], pointer.scene[2], button>>>>

\* the callback's result at the last pointer move, None when it was not asked
MoveResult ==
    IF view_out.transformed = <<>> THEN PyNone ELSE view_out.transformed[1]

\* C20: after a pointer move the plot-coordinate label shows the placeholder
\* whenever there is no transform result for the position (no callback, a
\* callback that returns None, or a position outside the image), whatever it
\* showed before, and shows the two values of the result, with three decimals,
\* whenever the callback returns a pair.  (The transform is only cleared here,
\* so while it is calibrated the result is the one it gives now.)
C20_PlotDisplay ==
    view_call.op = "mouseMoveEvent" =>
        LET pointer   == view_call.args[1]
            inside    == /\ view_call.pre[3]
                         /\ 0 <= pointer.scene[1] /\ pointer.scene[1] < ImageSize[1]
                         /\ 0 <= pointer.scene[2] /\ pointer.scene[2] < ImageSize[2]
            installed == view_call.pre[4] /= "None"
        IN  /\ (view_out.transformed /= <<>>) <=> (inside /\ installed)
            /\ (inside /\ installed /\ is_calibrated) =>
                    /\ MoveResult = pixel_to_real(FromInt(pointer.scene[1]),
                                                  FromInt(pointer.scene[2]))
                    /\ MoveResult.t = "tuple"
            /\ MoveResult.t /= "tuple" =>
                    /\ plot_coord_label = "Plot X: --, Plot Z: --"
                    /\ plot_coord_label /= "Plot X: 0.000, Plot Z: 0.000"
            /\ MoveResult.t = "tuple" =>
                    plot_coord_label = "Plot X: " \o FormatFixed(MoveResult.v[1], 3)
                                        \o ", Plot Z: " \o FormatFixed(MoveResult.v[2], 3)

\* a move inside the image over a calibrated transform: the label shows values
C20_Witness ==
    /\ view_call.op = "mouseMoveEvent"
    /\ MoveResult.t = "tuple"
    /\ plot_coord_label /= PlaceholderPlot
    /\ plot_coord_label /= "Plot X: 0.000, Plot Z: 0.000"

\* C21: the crosshair guide lines are shown (crosshair_visible true, the two
\* lines not hidden) only while the view is in Digitize; in Pan and in Neutral
\* the crosshair is hidden.
C21_CrosshairOnlyInDigitize ==
    (crosshair_visible \/ lines_shown) => Digitize

\* C22: in both registries the markers live on the drawing surface are exactly
\* the markers held in reference_markers, series_markers and georef_markers:
\* none drawn is untracked and none tracked has been erased.
C22_SurfaceMatchesRegistry ==
    scene_items = Tracked(reference_markers, series_markers, georef_markers)

\* a registry holding a marker of each collection after a series was recoloured
C22_Witness ==
    /\ reference_markers /= EmptyDict
    /\ \E n \in DOMAIN series_markers : series_markers[n] /= <<>>
    /\ georef_markers /= <<>>
    /\ Cardinality(scene_items) = 3

\* the markers the tool's last call erased, one entry for each erase
ToolErased == [i \in {j \in DOMAIN tool_events : tool_events[j].ev = "erase"} |->
                   tool_events[i].h]

\* C23: the points list and the markers list of DigitizeMapTool have the same
\* length, the i-th marker is a live marker centred on the i-th point, and no
\* other marker of the tool is on the canvas; a left press appends exactly one
\* point, the map position of the press, and calls the callback exactly once
\* with it; a press of another button adds nothing and calls nothing;
\* clear_points and deactivate leave both lists empty and erase every marker
\* the tool had, each once.
C23_ToolListsAgree ==
    /\ Len(points) = Len(markers)
    /\ \A i \in DOMAIN markers :
        /\ markers[i] \in canvas_items
        /\ tool_objs[markers[i]].center = points[i]
        /\ \A j \in DOMAIN markers : markers[j] = markers[i] => j = i
    /\ canvas_items = Range(markers)
    /\ tool_call.op = "canvasPressEvent" =>
        IF tool_call.args[2] = "LeftButton"
        THEN /\ points = Append(tool_call.pre[1], toMapCoordinates(tool_call.args[1]))
             /\ Len(markers) = Len(tool_call.pre[2]) + 1
             /\ callback_calls = <<toMapCoordinates(tool_call.args[1])>>
        ELSE /\ points = tool_call.pre[1]
             /\ markers = tool_call.pre[2]
             /\ callback_calls = <<>>
    /\ (tool_call.op = "clear_points" \/ tool_call.op = "deactivate") =>
        /\ points = <<>>
        /\ markers = <<>>
        /\ canvas_items = {}
        /\ Range(ToolErased) = Range(tool_call.pre[2])
        /\ Cardinality(DOMAIN ToolErased) = Len(tool_call.pre[2])

\* a left press added a second point to the tool
C23_Witness ==
    /\ tool_call.op = "canvasPressEvent"
    /\ tool_call.args[2] = "LeftButton"
    /\ Len(tool_call.pre[1]) = 1
    /\ Len(points) = 2
    /\ callback_calls /= <<>>

\* C24: when the modes are changed through the toolbar only, at most one of the
\* two actions is checked, the Pan action is checked exactly when the view is
\* in pan_mode, and the Digitize action exactly when it is in digitize_mode.
C24_ToolbarAgreesWithView ==
    /\ ~(action_pan_checked /\ action_digitize_checked)
    /\ action_pan_checked <=> pan_mode
    /\ action_digitize_checked <=> digitize_mode

\* the Pan action was toggled on while Digitize was checked
C24_Witness ==
    /\ view_call.op = "toggle_pan_mode"
    /\ view_call.args = <<TRUE>>
    /\ WasDigitize
    /\ action_pan_checked
    /\ ~action_digitize_checked

\* C25: a call of pixel_to_real or is_calibrated, in any state and with any
\* argument, leaves reference_points and reference_values as they were, and a
\* call that repeats the one before it returns what that one returned.
C25_QueriesReadOnly ==
    [][ (ct_call'.op = "pixel_to_real" \/ ct_call'.op = "is_calibrated") =>
          /\ reference_points' = reference_points
          /\ reference_values' = reference_values
          /\ (ct_call.op = ct_call'.op /\ ct_call.args = ct_call'.args) =>
                ct_call'.ret = ct_call.ret
      ]_vars

\* pixel_to_real answered with a pair over a calibrated transform
C25_Witness ==
    /\ ct_call.op = "pixel_to_real"
    /\ ct_call.ret.t = "tuple"
    /\ is_calibrated

\* C26: an object of the first CoordinateTransform class and an object of the
\* second, given the same sequence of calls, hold equal reference_points and
\* equal reference_values after every call, and every call returns the same
\* result from both.
C26_DefinitionsEquivalent ==
    /\ first_reference_points = reference_points
    /\ first_reference_values = reference_values
    /\ first_call = ct_call

\* both objects, calibrated by the same calls, answered pixel_to_real with the
\* same pair
C26_Witness ==
    /\ first_call.op = "pixel_to_real"
    /\ first_call.ret.t = "tuple"
    /\ ct_call.ret.t = "tuple"
    /\ first_reference_values /= EmptyDict

====
